---- MODULE Spec2Model ----
(***************************************************************************)
(* Model of the SPARCS compliance table extractor                          *)
(* (src/src/compliance_table_extractor.py).                                *)
(*                                                                         *)
(* Text is a sequence of one-character strings, so that the string         *)
(* operations of the code (replace, upper, rstrip, contains, split, float) *)
(* are computed character by character.  A cell of a DataFrame is either   *)
(* such a text, the missing value NaN, or a number Num(m, e) = m * 10^-e.  *)
(***************************************************************************)
EXTENDS Integers, Sequences, FiniteSets, TLC

(***************************************************************************)
(* Bounds of the model.                                                    *)
(***************************************************************************)
MaxRows == 2
MaxTables == 2
MaxPdfs == 2

(***************************************************************************)
(* Characters.                                                             *)
(***************************************************************************)
LowerLetters == <<"a","b","c","d","e","f","g","h","i","j","k","l","m","n","o","p","q","r","s","t","u","v","w","x","y","z">>
UpperLetters == <<"A","B","C","D","E","F","G","H","I","J","K","L","M","N","O","P","Q","R","S","T","U","V","W","X","Y","Z">>
Digits == <<"0","1","2","3","4","5","6","7","8","9">>
Whitespace == {" ", "\n", "\t", "\r", "\f"}

IsLower(c) == \E i \in 1..26 : LowerLetters[i] = c
IsUpper(c) == \E i \in 1..26 : UpperLetters[i] = c
IsDigit(c) == \E i \in 1..10 : Digits[i] = c
DigitVal(c) == (CHOOSE i \in 1..10 : Digits[i] = c) - 1

UpperChar(c) == IF IsLower(c) THEN UpperLetters[CHOOSE i \in 1..26 : LowerLetters[i] = c] ELSE c
LowerChar(c) == IF IsUpper(c) THEN LowerLetters[CHOOSE i \in 1..26 : UpperLetters[i] = c] ELSE c

(* str.upper() and the case folding of a case-insensitive match *)
Upper(s) == [i \in 1..Len(s) |-> UpperChar(s[i])]
Lower(s) == [i \in 1..Len(s) |-> LowerChar(s[i])]

(* str.replace(a, b) for a one-character a and a text b *)
RECURSIVE Replace(_, _, _)
Replace(s, a, b) ==
    IF s = <<>> THEN <<>>
    ELSE (IF Head(s) = a THEN b ELSE <<Head(s)>>) \o Replace(Tail(s), a, b)

(* str.rstrip(c): every trailing c is removed *)
RECURSIVE RStrip(_, _)
RStrip(s, c) ==
    IF s # <<>> /\ s[Len(s)] = c THEN RStrip(SubSeq(s, 1, Len(s) - 1), c) ELSE s

(* surrounding whitespace removed, as float() does before parsing *)
RECURSIVE StripWs(_)
StripWs(s) ==
    IF s # <<>> /\ s[Len(s)] \in Whitespace THEN StripWs(SubSeq(s, 1, Len(s) - 1))
    ELSE IF s # <<>> /\ s[1] \in Whitespace THEN StripWs(Tail(s))
    ELSE s

(* re.search(pat, s) for a literal pat: pat occurs in s *)
Occurs(pat, s) ==
    \E i \in 1..(Len(s) - Len(pat) + 1) : SubSeq(s, i, i + Len(pat) - 1) = pat

(* str.split(sep) for a one-character sep *)
RECURSIVE Split(_, _)
Split(s, sep) ==
    IF \A i \in 1..Len(s) : s[i] # sep THEN <<s>>
    ELSE LET i == CHOOSE k \in 1..Len(s) : s[k] = sep /\ \A j \in 1..(k - 1) : s[j] # sep
         IN  <<SubSeq(s, 1, i - 1)>> \o Split(SubSeq(s, i + 1, Len(s)), sep)

(***************************************************************************)
(* Cell values.  A number is a binary64 float, held as the decimal that     *)
(* repr prints for it (the shortest decimal that reads back as the same     *)
(* float): Num(m, e) is the float printed as m * 10^-e, with the digits of  *)
(* m as a text and e >= 0.                                                  *)
(***************************************************************************)
NaN == <<"NaN">>
Inf == <<"inf">>
NegInf == <<"-inf">>

(* int(ds) for a short text of digits *)
RECURSIVE DigitsVal(_)
DigitsVal(ds) ==
    IF ds = <<>> THEN 0
    ELSE DigitsVal(SubSeq(ds, 1, Len(ds) - 1)) * 10 + DigitVal(ds[Len(ds)])

(* str(n) for a natural number *)
RECURSIVE Decimal(_)
Decimal(n) == IF n < 10 THEN <<Digits[n + 1]>> ELSE Decimal(n \div 10) \o <<Digits[(n % 10) + 1]>>

Num(m, e) == <<"num", (IF m < 0 THEN <<"-">> ELSE <<>>) \o Decimal(IF m < 0 THEN -m ELSE m), e>>
NegZero == <<"num", <<"-", "0">>, 0>>
IsFinite(v) == Len(v) = 3 /\ v[1] = "num"
IsNum(v) == IsFinite(v) \/ v = Inf \/ v = NegInf
IsText(v) == v # NaN /\ ~IsNum(v)
IsNegative(v) == v[2][1] = "-"
Mantissa(v) == IF IsNegative(v) THEN Tail(v[2]) ELSE v[2]

(* digits without the zeros in front (one zero is left of all zeros) and   *)
(* without the zeros at the end                                             *)
LStripZeros(ds) ==
    IF \A k \in 1..Len(ds) : ds[k] = "0" THEN (IF ds = <<>> THEN <<>> ELSE <<"0">>)
    ELSE SubSeq(ds, CHOOSE k \in 1..Len(ds) : ds[k] # "0" /\ \A j \in 1..(k - 1) : ds[j] = "0",
                Len(ds))

RStripZeros(ds) ==
    IF \A k \in 1..Len(ds) : ds[k] = "0" THEN (IF ds = <<>> THEN <<>> ELSE <<"0">>)
    ELSE SubSeq(ds, 1,
                CHOOSE k \in 1..Len(ds) : ds[k] # "0" /\ \A j \in (k + 1)..Len(ds) : ds[j] = "0")

(* the digits and the exponent of ds * 10^-e with e >= 0 and, when e > 0,   *)
(* no zero at the end of the digits                                         *)
NormalDecimal(ds, e) ==
    IF ds = <<"0">> THEN <<ds, 0>>
    ELSE IF e < 0 THEN <<ds \o [k \in 1..(-e) |-> "0"], 0>>
    ELSE IF Len(ds) - Len(RStripZeros(ds)) > e THEN <<SubSeq(ds, 1, Len(ds) - e), 0>>
    ELSE <<RStripZeros(ds), e - (Len(ds) - Len(RStripZeros(ds)))>>

MakeNum(negative, ds, e) ==
    <<"num", (IF negative THEN <<"-">> ELSE <<>>) \o NormalDecimal(LStripZeros(ds), e)[1],
      NormalDecimal(LStripZeros(ds), e)[2]>>

(***************************************************************************)
(* Natural numbers of any size, for the arithmetic of binary64: a number is *)
(* the sequence of its digits in base 10000, the least significant first,   *)
(* and zero is the empty sequence.                                          *)
(***************************************************************************)
RECURSIVE BigTrim(_)
BigTrim(x) == IF x # <<>> /\ x[Len(x)] = 0 THEN BigTrim(SubSeq(x, 1, Len(x) - 1)) ELSE x

(* x * k + c, for k <= 2^17 and c <= 2^17: the digits of x are multiplied   *)
(* from the least significant one, each passing its carry to the next; the  *)
(* lower half of the digits is done before the upper half                   *)
RECURSIVE BigMulCarry(_, _, _)
BigMulJoin(lo, hi) == <<lo[1] \o hi[1], hi[2]>>

BigMulHigh(lo, x, k) == BigMulJoin(lo, BigMulCarry(x, k, lo[2]))

BigMulCarry(x, k, c) ==
    IF c = 0 /\ \A n \in 1..Len(x) : x[n] = 0 THEN <<x, 0>>
    ELSE IF x = <<>> THEN <<<<>>, c>>
    ELSE IF Len(x) = 1 THEN <<<<(x[1] * k + c) % 10000>>, (x[1] * k + c) \div 10000>>
    ELSE BigMulHigh(BigMulCarry(SubSeq(x, 1, Len(x) \div 2), k, c),
                    SubSeq(x, (Len(x) \div 2) + 1, Len(x)), k)

CarryDigits(c) ==
    IF c = 0 THEN <<>> ELSE IF c < 10000 THEN <<c>> ELSE <<c % 10000, c \div 10000>>

BigMulFinish(r) == r[1] \o CarryDigits(r[2])

BigMulAdd(x, k, c) == BigMulFinish(BigMulCarry(x, k, c))

(* <<x div k, x mod k>> for k <= 2^17: long division from the most          *)
(* significant digit, each digit passing its remainder to the next; the     *)
(* upper half of the digits is done before the lower half                   *)
RECURSIVE BigDivCarry(_, _, _)
BigDivJoin(hi, lo) == <<lo[1] \o hi[1], lo[2]>>

BigDivLow(hi, x, k) == BigDivJoin(hi, BigDivCarry(x, k, hi[2]))

BigDivCarry(x, k, rem) ==
    IF rem = 0 /\ \A n \in 1..Len(x) : x[n] = 0 THEN <<x, 0>>
    ELSE IF x = <<>> THEN <<<<>>, rem>>
    ELSE IF Len(x) = 1 THEN <<<<(rem * 10000 + x[1]) \div k>>, (rem * 10000 + x[1]) % k>>
    ELSE BigDivLow(BigDivCarry(SubSeq(x, (Len(x) \div 2) + 1, Len(x)), k, rem),
                   SubSeq(x, 1, Len(x) \div 2), k)

BigDivTrim(r) == <<BigTrim(r[1]), r[2]>>

BigDiv(x, k) == BigDivTrim(BigDivCarry(x, k, 0))

(* x - 1 for x > 0 *)
RECURSIVE BigPredDigits(_)
BigPredDigits(x) ==
    IF x[1] > 0 THEN <<x[1] - 1>> \o Tail(x) ELSE <<9999>> \o BigPredDigits(Tail(x))

BigPred(x) == BigTrim(BigPredDigits(x))

BigLess(x, y) ==
    \/ Len(x) < Len(y)
    \/ /\ Len(x) = Len(y)
       /\ \E n \in 1..Len(x) : x[n] < y[n] /\ \A j \in (n + 1)..Len(x) : x[j] = y[j]

BigOdd(x) == x # <<>> /\ x[1] % 2 = 1

(* <<x div k, lost>> for a pair <<x, lost>>: lost tells whether a division  *)
(* so far has left a remainder                                              *)
BigDropStep(qr, lost) == <<qr[1], lost \/ qr[2] # 0>>

(* x * 2^s *)
RECURSIVE BigShl(_, _)
BigShl(x, s) ==
    IF s = 0 \/ x = <<>> THEN x
    ELSE IF s <= 17 THEN BigMulAdd(x, 2^s, 0)
    ELSE BigShl(BigShl(x, s \div 2), s - (s \div 2))

(* <<x div 2^s, lost>> for a pair <<x, lost>> *)
RECURSIVE BigShr(_, _)
BigShr(pair, s) ==
    IF s = 0 \/ pair[1] = <<>> THEN pair
    ELSE IF s <= 17 THEN BigDropStep(BigDiv(pair[1], 2^s), pair[2])
    ELSE BigShr(BigShr(pair, s \div 2), s - (s \div 2))

(* x * 10^p *)
BigMulPow10(x, p) ==
    IF x = <<>> THEN <<>> ELSE [k \in 1..(p \div 4) |-> 0] \o BigMulAdd(x, 10^(p % 4), 0)

(* <<x div 10^p, lost>> for a pair <<x, lost>> *)
BigDivPow10(pair, p) ==
    BigDropStep(BigDiv(SubSeq(pair[1], (p \div 4) + 1, Len(pair[1])), 10^(p % 4)),
                pair[2] \/ \E k \in 1..Len(pair[1]) : k <= p \div 4 /\ pair[1][k] # 0)

(* the number of binary digits of x *)
RECURSIVE IntBits(_)
IntBits(n) == IF n = 0 THEN 0 ELSE 1 + IntBits(n \div 2)

RECURSIVE BigBits(_)
BigBits(x) ==
    IF x = <<>> THEN 0
    ELSE IF Len(x) = 1 THEN IntBits(x[1])
    ELSE IF Len(x) = 2 THEN IntBits(x[2] * 10000 + x[1])
    ELSE 13 * (Len(x) - 2) + BigBits(BigShr(<<x, FALSE>>, 13 * (Len(x) - 2))[1])

(* the number written with the decimal digits ds *)
BigOfDigits(ds) ==
    BigTrim([j \in 1..((Len(ds) + 3) \div 4) |->
                DigitsVal(SubSeq(ds, IF Len(ds) - 4 * j + 1 < 1 THEN 1 ELSE Len(ds) - 4 * j + 1,
                                 Len(ds) - 4 * j + 4))])

(* the decimal digits of x *)
FourDigits(n) ==
    <<Digits[(n \div 1000) + 1], Digits[((n \div 100) % 10) + 1], Digits[((n \div 10) % 10) + 1],
      Digits[(n % 10) + 1]>>

BigText(x) ==
    IF x = <<>> THEN <<"0">>
    ELSE Decimal(x[Len(x)])
         \o [k \in 1..(4 * (Len(x) - 1)) |->
                FourDigits(x[Len(x) - 1 - ((k - 1) \div 4)])[((k - 1) % 4) + 1]]

(***************************************************************************)
(* binary64.  A positive float is <<q, x>> = q * 2^x with q below 2^53, and *)
(* q at least 2^52 unless x = -1074 (subnormal); q = <<>> is zero.          *)
(***************************************************************************)
TwoTo52 == <<496, 2737, 5996, 4503>>
TwoTo53 == <<992, 5474, 1992, 9007>>
TwoTo54 == <<1984, 948, 3985, 8014, 1>>

(* <<floor(x * 2^b * 10^p), lost>> *)
ScaledFloor(x, b, p) ==
    BigDivPow10(BigShr(<<BigShl(BigMulPow10(x, IF p > 0 THEN p ELSE 0), IF b > 0 THEN b ELSE 0),
                         FALSE>>,
                       IF b < 0 THEN -b ELSE 0),
                IF p < 0 THEN -p ELSE 0)

(* the last step of rounding: pair[1] holds the digits of q and one more    *)
(* binary digit, pair[2] tells whether anything was lost below it; ties go  *)
(* to the even q                                                            *)
RoundedUp(q, x) == IF q = TwoTo53 THEN <<TwoTo52, x + 1>> ELSE <<q, x>>

RoundHalfEven(half, lost, x) ==
    IF half[2] = 1 /\ (lost \/ BigOdd(half[1])) THEN RoundedUp(BigMulAdd(half[1], 1, 1), x)
    ELSE <<half[1], x>>

RoundFinal(pair, x) == RoundHalfEven(BigDiv(pair[1], 2), pair[2], x + 1)

(* pair[1] * 2^x with pair[1] of 54 or 55 binary digits: 54 are kept, and   *)
(* fewer below the normal range                                             *)
RoundDropped(pair, x, k) == RoundFinal(BigShr(pair, k), x + k)

RoundToFloat(pair, x) ==
    RoundDropped(pair, x,
                 IF -1075 - x > 1 THEN -1075 - x
                 ELSE IF BigLess(pair[1], TwoTo54)
                 THEN (IF -1075 - x > 0 THEN -1075 - x ELSE 0)
                 ELSE 1)

(* the binary digits of the numerator and of the denominator of m / 10^e *)
RatioBits(m, e) ==
    [j \in 1..2 |-> BigBits(BigMulPow10(IF j = 1 THEN m ELSE <<1>>,
                                        IF j = 1 THEN (IF e < 0 THEN -e ELSE 0)
                                        ELSE (IF e > 0 THEN e ELSE 0)))]

RoundScaled(m, e, b, s) == RoundToFloat(ScaledFloor(m, s, -e), b - s)

(* the float nearest to m * 2^b / 10^e, for m > 0: the quotient is taken    *)
(* with 54 or 55 binary digits and rounded                                  *)
RoundRatio(m, e, b) == RoundScaled(m, e, b, 54 - RatioBits(m, e)[1] + RatioBits(m, e)[2])

(* f divided by 10^es[1], then by 10^es[2], ..., rounded after each *)
RECURSIVE RoundSteps(_, _)
RoundSteps(f, es) ==
    IF es = <<>> \/ f[1] = <<>> THEN f
    ELSE RoundSteps(RoundRatio(f[1], es[1], f[2]), Tail(es))

(* the float is beyond the largest one: the result of the operation is inf *)
IsOverflow(f) == f[2] > 971

(* the decimals c * 10^-p that read back as the float f lie between the     *)
(* middle of f and the float below and the middle of f and the float above, *)
(* the middles included when q is even.  The float below is nearer when q   *)
(* is 2^52                                                                  *)
IsNarrow(f) == f[1] = TwoTo52 /\ f[2] > -1074

(* floor and lost of 10^p times the lower middle, f twice, the upper middle *)
Marks(f, p) ==
    [j \in 1..3 |->
        ScaledFloor(BigMulAdd(IF j = 1 THEN BigPred(f[1]) ELSE f[1],
                              IF j = 1 /\ IsNarrow(f) THEN 4 ELSE 2,
                              IF j = 1 THEN (IF IsNarrow(f) THEN 3 ELSE 1)
                              ELSE IF j = 2 THEN 0 ELSE 1),
                    IF j = 2 THEN f[2] ELSE IF j = 1 /\ IsNarrow(f) THEN f[2] - 2 ELSE f[2] - 1,
                    p)]

CeilOf(pair, included) ==
    IF pair[2] \/ ~included THEN BigMulAdd(pair[1], 1, 1) ELSE pair[1]

FloorOf(pair, included) ==
    IF pair[2] \/ included \/ pair[1] = <<>> THEN pair[1] ELSE BigPred(pair[1])

(* the c for which c * 10^-p is nearest to f, from 10^p times f twice *)
NearestRounded(half, lost) ==
    IF half[2] = 1 /\ (lost \/ BigOdd(half[1])) THEN BigMulAdd(half[1], 1, 1) ELSE half[1]

NearestHalf(pair) == NearestRounded(BigDiv(pair[1], 2), pair[2])

Clamped(c, least, most) == IF BigLess(c, least) THEN least ELSE IF BigLess(most, c) THEN most ELSE c

(* a p at which no decimal c * 10^-p with c >= 1 can read back as f: 10^-p  *)
(* is above 2^bits, and f is below 2^bits                                   *)
CoarseStart(bits) ==
    IF bits >= 0 THEN -(((bits * 30103) \div 100000) + 1)
    ELSE (((-bits) * 30102) \div 100000)

(* repr: the decimal with the fewest digits that reads back as f, the one   *)
(* nearest to f when there are several: <<digits, p>> for digits * 10^-p.   *)
(* If some c * 10^-p reads back as f then so does 10 * c * 10^-(p + 1), so  *)
(* the least such p is found by halving lo..hi, where none does at lo and   *)
(* one does at hi.  hint is <<>>, or a decimal <<c, p>> of at most 15 digits *)
(* from which the normal float f is at most two floats away: it is tried    *)
(* first.  If it reads back as f it is the answer, being the only decimal   *)
(* of at most 15 digits that does; if not, none of less than 16 digits does *)
(* and the search is among 16 digits and more                               *)
RECURSIVE ShortestBetween(_, _, _, _)
ShortestPick(f, lo, hi, hint, p, least, most, twice) ==
    IF hint # <<>>
    THEN (IF ~BigLess(hint[1], least) /\ ~BigLess(most, hint[1]) THEN <<BigText(hint[1]), p>>
          ELSE ShortestBetween(f, p + 15 - Len(BigText(hint[1])),
                               p + 18 - Len(BigText(hint[1])), <<>>))
    ELSE IF hi = lo + 1 THEN <<BigText(Clamped(NearestHalf(twice), least, most)), p>>
    ELSE IF BigLess(most, least) THEN ShortestBetween(f, p, hi, <<>>)
    ELSE ShortestBetween(f, lo, p, <<>>)

ShortestTry(f, lo, hi, hint, p, marks) ==
    ShortestPick(f, lo, hi, hint, p, CeilOf(marks[1], ~BigOdd(f[1])),
                 FloorOf(marks[3], ~BigOdd(f[1])), marks[2])

ShortestAt(f, lo, hi, hint, p) == ShortestTry(f, lo, hi, hint, p, Marks(f, p))

ShortestBetween(f, lo, hi, hint) ==
    ShortestAt(f, lo, hi, hint,
               IF hint # <<>> THEN hint[2] ELSE IF hi = lo + 1 THEN hi ELSE (lo + hi) \div 2)

(* 17 digits are enough for a normal float: with coarse the p of            *)
(* CoarseStart, a decimal reads back at coarse + 18, and none at coarse - 1 *)
ShortestFrom(f, coarse, hint) ==
    ShortestBetween(f, coarse - 1, coarse + (IF BigLess(f[1], TwoTo52) THEN 35 ELSE 18), hint)

Shortest(f, hint) == ShortestFrom(f, CoarseStart(f[2] + 53), hint)

(* the cell value of a float *)
NumOfShortest(negative, r) == MakeNum(negative, r[1], r[2])

NumOfFloat(negative, f, hint) ==
    IF f[1] = <<>> THEN (IF negative THEN NegZero ELSE Num(0, 0))
    ELSE IF IsOverflow(f) THEN (IF negative THEN NegInf ELSE Inf)
    ELSE NumOfShortest(negative, Shortest(f, IF BigLess(f[1], TwoTo52) THEN <<>> ELSE hint))

(* the float of the decimal ds * 10^-e (not 0), divided by 10^k when k > 0, *)
(* for a 10^k that is a float.  The decimal ds * 10^-(e + k) is the one to  *)
(* try first for repr: each of the two roundings moves the result by at     *)
(* most half a float                                                        *)
FloatNum(negative, ds, e, k) ==
    NumOfFloat(negative,
               RoundSteps(<<BigOfDigits(ds), 0>>, IF k = 0 THEN <<e>> ELSE <<e, k>>),
               IF Len(RStripZeros(ds)) <= 15 THEN <<BigOfDigits(ds), e + k>> ELSE <<>>)

(***************************************************************************)
(* float(text), as astype("float") applies it to each text of the column:   *)
(* surrounding whitespace is ignored, then an optional sign and "nan",      *)
(* "inf", "infinity" (in any case) or a decimal numeral: digits with at     *)
(* most one point, an optional exponent, and single underscores between     *)
(* digits.  The value is the nearest float.  A text that is not of that     *)
(* form raises ValueError.                                                  *)
(***************************************************************************)
ValueError == <<"ValueError">>

UnderscoresBetweenDigits(body) ==
    \A k \in 1..Len(body) :
        body[k] = "_" => k > 1 /\ k < Len(body) /\ IsDigit(body[k - 1]) /\ IsDigit(body[k + 1])

WithoutUnderscores(body) == SelectSeq(body, LAMBDA c : c # "_")

(* the position of the e of the exponent, 0 when there is none *)
ExponentAt(u) ==
    IF \E k \in 1..Len(u) : u[k] \in {"e", "E"}
    THEN CHOOSE k \in 1..Len(u) : u[k] \in {"e", "E"} /\ \A j \in 1..(k - 1) : u[j] \notin {"e", "E"}
    ELSE 0

SignificandOf(u) == IF ExponentAt(u) = 0 THEN u ELSE SubSeq(u, 1, ExponentAt(u) - 1)

ExponentOf(u) == IF ExponentAt(u) = 0 THEN <<>> ELSE SubSeq(u, ExponentAt(u) + 1, Len(u))

ExponentDigits(x) == IF x # <<>> /\ x[1] \in {"+", "-"} THEN Tail(x) ELSE x

IsSignificand(t) ==
    /\ \A k \in 1..Len(t) : IsDigit(t[k]) \/ t[k] = "."
    /\ Cardinality({k \in 1..Len(t) : t[k] = "."}) <= 1
    /\ \E k \in 1..Len(t) : IsDigit(t[k])

IsExponent(ds) == ds # <<>> /\ \A k \in 1..Len(ds) : IsDigit(ds[k])

IsNumeral(u) ==
    /\ IsSignificand(SignificandOf(u))
    /\ ExponentAt(u) > 0 => IsExponent(ExponentDigits(ExponentOf(u)))

IsFloatNumeral(body) == UnderscoresBetweenDigits(body) /\ IsNumeral(WithoutUnderscores(body))

(* the exponent as a number; beyond six digits every float is 0 or inf *)
ExponentVal(x) ==
    (IF x # <<>> /\ x[1] = "-" THEN -1 ELSE 1)
    * (IF Len(LStripZeros(ExponentDigits(x))) > 6 THEN 1000000
       ELSE DigitsVal(ExponentDigits(x)))

(* how many digits follow the point *)
FractionLen(t) ==
    IF \E k \in 1..Len(t) : t[k] = "." THEN Len(t) - (CHOOSE k \in 1..Len(t) : t[k] = ".") ELSE 0

(* the float of the digits ds * 10^-e, ds having no zero at either end: a   *)
(* decimal of at most 15 digits well inside the range is printed back as it *)
(* is written; the others are rounded to the nearest float                  *)
FloatOfDigits(negative, ds, e) ==
    IF ds = <<"0">> THEN (IF negative THEN NegZero ELSE Num(0, 0))
    ELSE IF Len(ds) <= 15 /\ Len(ds) - e > -290 /\ Len(ds) - e < 290 THEN MakeNum(negative, ds, e)
    ELSE IF Len(ds) - e > 310 THEN (IF negative THEN NegInf ELSE Inf)
    ELSE IF Len(ds) - e < -330 THEN (IF negative THEN NegZero ELSE Num(0, 0))
    ELSE FloatNum(negative, ds, e, 0)

(* the digits of the significand t without the zeros in front *)
SignificantDigits(t) == LStripZeros(SelectSeq(t, IsDigit))

FloatOfSignificand(negative, ds, e) ==
    FloatOfDigits(negative, RStripZeros(ds), e - (Len(ds) - Len(RStripZeros(ds))))

FloatOfNumeral(negative, u) ==
    FloatOfSignificand(negative, SignificantDigits(SignificandOf(u)),
                       FractionLen(SignificandOf(u)) - ExponentVal(ExponentOf(u)))

ParseFloatBody(negative, body) ==
    IF Lower(body) = <<"n","a","n">> THEN NaN
    ELSE IF Lower(body) \in {<<"i","n","f">>, <<"i","n","f","i","n","i","t","y">>}
    THEN (IF negative THEN NegInf ELSE Inf)
    ELSE IF ~IsFloatNumeral(body) THEN ValueError
    ELSE FloatOfNumeral(negative, WithoutUnderscores(body))

IsSigned(t) == t # <<>> /\ t[1] \in {"+", "-"}

ParseFloatStripped(t) == ParseFloatBody(IsSigned(t) /\ t[1] = "-", IF IsSigned(t) THEN Tail(t) ELSE t)

ParseFloat(s) == ParseFloatStripped(StripWs(s))

(* the decimal ds * 10^-e is a float: an integer below 2^53 over a power of *)
(* two (only e up to 7 is looked at)                                        *)
IsExactDecimal(ds, e) ==
    Len(ds) <= 15 /\ e <= 7 /\ BigDiv(BigOfDigits(ds), 5^e)[2] = 0

(* x / 100.0 in binary64: the float of x divided by the float 100, the      *)
(* quotient rounded to the nearest float.  When x is a float itself the     *)
(* division is the only rounding: the quotient is the float nearest to the  *)
(* decimal hundredth of x, which has at most 15 digits and so is printed    *)
(* back as it is                                                            *)
Div100(v) ==
    IF v = NaN \/ v = Inf \/ v = NegInf THEN v
    ELSE IF Mantissa(v) = <<"0">> THEN v
    ELSE IF IsExactDecimal(Mantissa(v), v[3]) THEN MakeNum(IsNegative(v), Mantissa(v), v[3] + 2)
    ELSE FloatNum(IsNegative(v), Mantissa(v), v[3], 2)

(* Series.astype(str) on one cell: the missing value prints as "nan" *)
AsStr(v) == IF v = NaN THEN <<"n","a","n">> ELSE v

(***************************************************************************)
(* Program constants.                                                      *)
(***************************************************************************)
FILE_TYPE == <<"F","I","L","E","_","T","Y","P","E">>
PCT_OF_PREVYRAVG_SUBMTD_ == <<"P","C","T","_","O","F","_","P","R","E","V","Y","R","A","V","G","_","S","U","B","M","T","D","_">>
FileNewlineType == <<"F","i","l","e","\n","T","y","p","e">>
TotalRecordsSubmitted == <<"T","o","t","a","l"," ","R","e","c","o","r","d","s"," ","S","u","b","m","i","t","t","e","d">>
PFI == <<"P","F","I">>
AUDIT_YEAR == <<"A","U","D","I","T","_","Y","E","A","R">>
UnknownYear == <<"U","n","k","n","o","w","n","Y","e","a","r">>

(***************************************************************************)
(* File name parsing (process_pdf, lines 29-38).                           *)
(***************************************************************************)
(* Path(p).name: the last component of the path, pathlib having dropped    *)
(* the empty components (a doubled or trailing "/") and the "." components; *)
(* the empty text when no component is left                                 *)
PathName(p) ==
    LET parts == SelectSeq(Split(p, "/"), LAMBDA part : part # <<>> /\ part # <<".">>)
    IN  IF parts = <<>> THEN <<>> ELSE parts[Len(parts)]

(* Path(p).stem: the name without its last suffix *)
Stem(p) ==
    LET name == PathName(p)
        dots == {i \in 1..Len(name) : name[i] = "."}
        last == CHOOSE i \in dots : \A j \in dots : j <= i
    IN  IF dots # {} /\ 1 < last /\ last < Len(name)
        THEN SubSeq(name, 1, last - 1)
        ELSE name

name_parts(pdf_filename) == Split(Stem(pdf_filename), "_")

pfi_of_first_part(pdf_filename) ==
    name_parts(pdf_filename)[1]

pfi_of(pdf_filename) ==
    LET parts == name_parts(pdf_filename) IN parts[Len(parts)]

file_year_of(pdf_filename) ==
    LET file_year_str == name_parts(pdf_filename)[1]
    IN  IF file_year_str # <<>> /\ file_year_str[1] = "Y" /\ Len(file_year_str) > 1
        THEN Tail(file_year_str)
        ELSE UnknownYear

(***************************************************************************)
(* DataFrames.  A frame is [columns, index, data]: the column labels, the  *)
(* row labels (pandas keeps the original label of a row through every      *)
(* filter) and the rows, each a sequence of cells.  A grid is the rows of   *)
(* the frame that the table detector returns (table.df), header row first. *)
(***************************************************************************)
RangeLabel(j) == <<"int", j>>

RangeColumns(grid) ==
    IF grid = <<>> THEN <<>> ELSE [j \in 1..Len(grid[1]) |-> RangeLabel(j - 1)]

(* positions of the columns carrying a label *)
Positions(columns, label) == {j \in 1..Len(columns) : columns[j] = label}

RECURSIVE SelectPos(_, _, _)
SelectPos(s, P, k) ==
    IF k > Len(s) THEN <<>>
    ELSE (IF k \in P THEN <<s[k]>> ELSE <<>>) \o SelectPos(s, P, k + 1)

(* df.loc[mask, :] where P is the set of row positions at which mask holds *)
KeepRows(df, P) ==
    [df EXCEPT !.index = SelectPos(df.index, P, 1),
               !.data = SelectPos(df.data, P, 1)]

(* df[label] = value for a scalar value, or one value per row (values[k]):  *)
(* every column carrying the label is overwritten, a new label is appended  *)
SetColumn(df, label, values) ==
    LET P == Positions(df.columns, label)
    IN  IF P # {}
        THEN [df EXCEPT !.data = [k \in 1..Len(df.data) |->
                  [j \in 1..Len(df.columns) |->
                      IF j \in P THEN values[k] ELSE df.data[k][j]]]]
        ELSE [df EXCEPT !.columns = Append(df.columns, label),
                        !.data = [k \in 1..Len(df.data) |-> Append(df.data[k], values[k])]]

Scalar(df, v) == [k \in 1..Len(df.data) |-> v]

Column(df, j) == [k \in 1..Len(df.data) |-> df.data[k][j]]

(***************************************************************************)
(* process_pdf, the steps applied to one table (lines 46-83).              *)
(***************************************************************************)
(* line 51: str(c).replace("*", "").replace("\n", "_").replace(" ", "_").upper() *)
CleanColumnNameNoStar(c) ==
    Upper(Replace(Replace(c, "\n", <<"_">>), " ", <<"_">>))

CleanColumnName(c) ==
    Upper(Replace(Replace(Replace(c, "*", <<>>), "\n", <<"_">>), " ", <<"_">>))

(* lines 48-53: the first row becomes the column labels, cleaned *)
CleanColumns(grid) == [j \in 1..Len(grid[1]) |-> CleanColumnName(grid[1][j])]

(* line 56: 'FILE_TYPE' not in df.columns *)
LacksFileTypeNever(columns) == FALSE

LacksFileType(columns) == Positions(columns, FILE_TYPE) = {}

(* line 61: df.loc[df["FILE_TYPE"] != "File\nType", :], the key in column kp *)
NotOriginalHeader(v) == v # FileNewlineType

DropOriginalHeader(df, kp) ==
    KeepRows(df, {k \in 1..Len(df.data) : NotOriginalHeader(df.data[k][kp])})

(* line 62: df.loc[df["FILE_TYPE"].str.upper() != "FILE_TYPE", :] *)
NotUpperHeader(v) == Upper(v) # FILE_TYPE

DropUpperHeader(df, kp) ==
    KeepRows(df, {k \in 1..Len(df.data) : NotUpperHeader(df.data[k][kp])})

(* line 64: ~df["FILE_TYPE"].str.contains("Total Records Submitted", case=False, na=False) *)
IsSummaryCaseSensitive(v) == Occurs(TotalRecordsSubmitted, v)

IsSummary(v) == Occurs(Lower(TotalRecordsSubmitted), Lower(v))

NotSummary(v) == ~IsSummary(v)

DropSummary(df, kp) ==
    KeepRows(df, {k \in 1..Len(df.data) : NotSummary(df.data[k][kp])})

(* line 65: the pattern ^\s*$ *)
IsBlank(v) == \A i \in 1..Len(v) : v[i] \in Whitespace

ReplaceBlank(df) ==
    [df EXCEPT !.data = [k \in 1..Len(df.data) |->
        [j \in 1..Len(df.columns) |->
            IF IsBlank(df.data[k][j]) THEN NaN ELSE df.data[k][j]]]]

(* line 68: Series.ffill() *)
FfillFromFirst(col) ==
    [k \in 1..Len(col) |-> IF col[k] # NaN THEN col[k] ELSE col[1]]

Ffill(col) ==
    LET filled[k \in 1..Len(col)] ==
            IF col[k] # NaN THEN col[k]
            ELSE IF k = 1 THEN NaN
            ELSE filled[k - 1]
    IN  filled

(* line 73, one cell: astype(str), str.rstrip("%"), astype("float"), / 100.0 *)
PctToFractionNoDivide(v) ==
    ParseFloat(RStrip(AsStr(v), "%"))

PctToFraction(v) ==
    LET x == ParseFloat(RStrip(AsStr(v), "%"))
    IN  IF x = ValueError THEN ValueError ELSE Div100(x)

(* line 77: the table has no percentage column, df[...] = np.nan *)
AddMissingPctSkipped(df) == df

AddMissingPct(df) ==
    SetColumn(df, PCT_OF_PREVYRAVG_SUBMTD_, Scalar(df, NaN))

NoFrame == [columns |-> <<>>, index |-> <<>>, data |-> <<>>]

(***************************************************************************)
(* The body of the per-table try block (lines 46-83) as a function of the   *)
(* detected grid: what happens to the table (accepted, skipped by the       *)
(* sanity check, or an exception caught at line 84), the frame appended     *)
(* when accepted, and the column labels left on table.df (lines 48-53       *)
(* assign to the table's own frame).                                        *)
(***************************************************************************)
ProcessTable(grid, pfi_value, file_year_value) ==
    LET columns == CleanColumns(grid)
        df0 == [columns |-> columns,
                index |-> [k \in 1..Len(grid) |-> k - 1],
                data |-> grid]
        keys == Positions(columns, FILE_TYPE)
        kp == CHOOSE j \in keys : TRUE
        df1 == DropOriginalHeader(df0, kp)
        df2 == DropUpperHeader(df1, kp)
        df3 == DropSummary(df2, kp)
        df4 == ReplaceBlank(df3)
        df5 == SetColumn(df4, FILE_TYPE, Ffill(Column(df4, kp)))
        pcts == Positions(columns, PCT_OF_PREVYRAVG_SUBMTD_)
        pp == CHOOSE j \in pcts : TRUE
        fractions == [k \in 1..Len(df5.data) |-> PctToFraction(df5.data[k][pp])]
        df6 == IF pcts # {}
               THEN SetColumn(df5, PCT_OF_PREVYRAVG_SUBMTD_, fractions)
               ELSE AddMissingPct(df5)
        df7 == SetColumn(df6, PFI, Scalar(df6, pfi_value))
        df8 == SetColumn(df7, AUDIT_YEAR, Scalar(df7, file_year_value))
        Raise(exc, cols) == [status |-> "error", exc |-> exc, columns |-> cols, df |-> NoFrame]
    IN  IF grid = <<>> THEN Raise("IndexError", <<>>)
        ELSE IF LacksFileType(columns)
             THEN [status |-> "skipped", exc |-> "", columns |-> columns, df |-> NoFrame]
        ELSE IF keys = {} THEN Raise("KeyError", columns)
        ELSE IF Cardinality(keys) > 1 THEN Raise("ValueError", columns)
        ELSE IF Cardinality(pcts) > 1 THEN Raise("AttributeError", columns)
        ELSE IF pcts # {} /\ \E k \in 1..Len(df5.data) : fractions[k] = ValueError
             THEN Raise("ValueError", columns)
        ELSE [status |-> "accepted", exc |-> "", columns |-> columns, df |-> df8]

(***************************************************************************)
(* Inputs: header rows, data rows, grids, file names and documents.        *)
(***************************************************************************)
TypeA == <<"T","y","p","e"," ","A">>
TypeB == <<"T","y","p","e"," ","B">>
FileSpaceType == <<"F","i","l","e"," ","T","y","p","e">>
StarFileType == <<"*","F","i","l","e"," ","T","y","p","e">>
LowerFileType == <<"f","i","l","e","_","t","y","p","e">>
PaddedFileType == <<" ","F","I","L","E","_","T","Y","P","E">>
LowerTotals == <<"t","o","t","a","l"," ","r","e","c","o","r","d","s"," ","s","u","b","m","i","t","t","e","d"," ","(","a","l","l",")">>
SomeColumn == <<"S","o","m","e"," ","C","o","l","u","m","n">>
SomeNlColumn == <<"*","s","o","m","e","\n","c","o","l","u","m","n">>
StarPct == <<"*","p","c","t","_","o","f","_","p","r","e","v","y","r","a","v","g","_","s","u","b","m","t","d","_">>
Other == <<"O","t","h","e","r">>

(* header rows whose tables reach the row steps: the standard one, one     *)
(* without the percentage column, and one whose key label neither header    *)
(* filter removes *)
Headers ==
    { <<FileNewlineType, SomeColumn, PCT_OF_PREVYRAVG_SUBMTD_>>,
      <<FILE_TYPE, SomeColumn>>,
      <<FileSpaceType, SomeColumn>> }

(* header rows that decide the table by themselves: a key label that is kept *)
(* as a row next to a percentage column, no key column, colliding labels *)
OddHeaders ==
    { <<StarFileType, SomeColumn, PCT_OF_PREVYRAVG_SUBMTD_>>,
      <<Other, SomeColumn>>,
      <<FileNewlineType, LowerFileType>>,
      <<FileNewlineType, SomeColumn, SomeNlColumn>>,
      <<FileNewlineType, PCT_OF_PREVYRAVG_SUBMTD_, StarPct>> }

(* data rows as (key cell, value cell); the value fills every other column *)
RowPairs ==
    { <<TypeA, <<"5","0","%">> >>,
      <<TypeB, <<"7","5",".","5","%">> >>,
      <<<<>>, <<"2","0","%">> >>,
      <<<<" ">>, <<"2","0">> >>,
      <<TotalRecordsSubmitted, <<"N","/","A">> >>,
      <<LowerTotals, <<"5","0","%">> >>,
      <<FileNewlineType, <<"5","0","%">> >>,
      <<LowerFileType, <<"2","0","%">> >>,
      <<PaddedFileType, <<"2","0","%">> >>,
      <<TypeA, <<"N","/","A">> >>,
      <<TypeB, <<"1",".","1","%">> >>,
      <<TypeB, <<>> >> }

RowOf(pair, width) == [j \in 1..width |-> IF j = 1 THEN pair[1] ELSE pair[2]]

(* sequences over S of length at most n *)
RECURSIVE SeqsUpTo(_, _)
SeqsUpTo(S, n) ==
    IF n = 0 THEN {<<>>}
    ELSE LET shorter == SeqsUpTo(S, n - 1)
         IN  shorter \cup {Append(q, x) : q \in {r \in shorter : Len(r) = n - 1}, x \in S}

GridOf(h, ps) == <<h>> \o [k \in 1..Len(ps) |-> RowOf(ps[k], Len(h))]

(* a header row followed by at most MaxRows data rows *)
Grids == {GridOf(h, ps) : h \in Headers, ps \in SeqsUpTo(RowPairs, MaxRows)}

OddGrids == {GridOf(h, ps) : h \in OddHeaders, ps \in SeqsUpTo(RowPairs, 1)}

(* the grid of test_process_pdf_data_transformation, the grid of the        *)
(* end-to-end scenario A, a grid with runs of merged key cells, and a grid  *)
(* of percentages whose hundredth is not a binary64 number *)
SampleGrids ==
    { GridOf(<<FileNewlineType, SomeColumn, PCT_OF_PREVYRAVG_SUBMTD_>>,
             << <<TypeA, <<"5","0","%">> >>,
                <<TotalRecordsSubmitted, <<"N","/","A">> >>,
                <<TypeB, <<"7","5",".","5","%">> >>,
                <<TypeB, <<"2","0","%">> >> >>),
      GridOf(<<FileNewlineType, SomeColumn, PCT_OF_PREVYRAVG_SUBMTD_>>,
             << <<TypeA, <<"5","0","%">> >>,
                <<TotalRecordsSubmitted, <<"x">> >>,
                <<<<>>, <<"7","5",".","5","%">> >> >>),
      GridOf(<<FILE_TYPE, SomeColumn, PCT_OF_PREVYRAVG_SUBMTD_>>,
             << <<TypeA, <<"1","5","0","%">> >>,
                <<<<>>, <<"2","0">> >>,
                <<TypeB, <<>> >>,
                <<<<" ">>, <<"7","5",".","5","%">> >>,
                <<<<>>, <<"2","0","%">> >> >>),
      GridOf(<<FileNewlineType, SomeColumn, PCT_OF_PREVYRAVG_SUBMTD_>>,
             << <<TypeA, <<"1",".","1","%">> >>,
                <<TypeA, <<"9","9",".","9","%">> >>,
                <<TypeB, <<"0",".","7">> >>,
                <<<<>>, <<"3","3",".","3","%">> >> >>) }

(* the tables of a document with several tables: accepted ones, one without *)
(* the key column, one that raises, and an empty frame *)
SiblingGrids ==
    { << <<FileNewlineType, SomeColumn, PCT_OF_PREVYRAVG_SUBMTD_>>,
         <<TypeA, <<"D","1">>, <<"5","0","%">> >> >>,
      << <<FILE_TYPE, SomeColumn>>, <<TypeB, <<>> >> >>,
      << <<Other, SomeColumn>>, <<TypeA, <<"D","1">> >> >>,
      << <<FileNewlineType, SomeColumn, PCT_OF_PREVYRAVG_SUBMTD_>>,
         <<TypeA, <<"D","1">>, <<"N","/","A">> >> >>,
      <<>> }

StandardName == <<"p","d","f","s","/","Y","2","0","2","3","_","A","U","D","I","T","_","R","E","P","O","R","T","_","P","F","I","1","2","3",".","p","d","f">>
FileNames ==
    { StandardName,
      <<"p","d","f","s","/","2","0","2","0","_","R","E","P","O","R","T","_","P","F","I","X","Y","Z",".","p","d","f">>,
      <<"Y","_","P","F","I","9",".","p","d","f">>,
      <<"Y","E","A","R","2","0","2","3","_","P","F","I","7",".","p","d","f">> }

(* what the table detector finds in a file: it raises, or returns grids *)
OneTablePdfs ==
    {[readable |-> TRUE, grids |-> <<g>>] : g \in Grids \cup OddGrids \cup SampleGrids}

ManyTablePdfs ==
    {[readable |-> TRUE, grids |-> gs] : gs \in SeqsUpTo(SiblingGrids, MaxTables)}
    \cup {[readable |-> FALSE, grids |-> <<>>]}

(***************************************************************************)
(* The folder read by extract_compliance_data: files with their tables.    *)
(***************************************************************************)
DISCHARGE_MONTH == <<"D","I","S","C","H","A","R","G","E","_","M","O","N","T","H">>
DischargeMonth == <<"D","i","s","c","h","a","r","g","e"," ","M","o","n","t","h">>
Jan == <<"J","a","n">>
Feb == <<"F","e","b">>

PdfName(lead, n) ==
    <<"p","d","f","s","/">> \o lead \o <<"_","R","_","P","F","I", n, ".","p","d","f">>

(* a table with the month and the percentage; its second row has no month *)
MonthPctGrid ==
    << <<FileNewlineType, DischargeMonth, PCT_OF_PREVYRAVG_SUBMTD_>>,
       <<TypeA, Jan, <<"5","0","%">> >>,
       <<<<>>, <<>>, <<"2","0","%">> >> >>
(* a table with the month and no percentage *)
MonthGrid == << <<FILE_TYPE, DischargeMonth>>, <<TypeB, Feb>> >>
(* a table with neither *)
PlainGrid == << <<FILE_TYPE, SomeColumn>>, <<TypeB, <<"D","1">> >> >>
(* a table whose only month cell is blank *)
BlankMonthGrid == << <<FILE_TYPE, DischargeMonth>>, <<TypeA, <<>> >> >>
(* a table with two header cells that clean to the same name *)
TwinColumnGrid ==
    << <<FileNewlineType, SomeColumn, SomeNlColumn>>,
       <<TypeA, <<"D","1">>, <<"D","2">> >> >>
(* a table that is a header row only *)
HeaderOnlyGrid == << <<FILE_TYPE, SomeColumn>> >>
(* tables that are not accepted: no key column, an unparsable percentage *)
NoKeyGrid == << <<Other, SomeColumn>>, <<TypeA, <<"D","1">> >> >>
BadPctGrid ==
    << <<FileNewlineType, SomeColumn, PCT_OF_PREVYRAVG_SUBMTD_>>,
       <<TypeA, <<"D","1">>, <<"N","/","A">> >> >>

Readable(grids) == [readable |-> TRUE, grids |-> grids]

Y(n) == <<"Y","2","0","2", n>>

PdfPool ==
    { [name |-> PdfName(Y("1"), "1"), pdf |-> Readable(<<MonthPctGrid, MonthGrid>>)],
      [name |-> PdfName(Y("2"), "2"), pdf |-> Readable(<<PlainGrid>>)],
      [name |-> PdfName(Y("3"), "3"), pdf |-> [readable |-> FALSE, grids |-> <<>>]],
      [name |-> PdfName(Y("4"), "4"), pdf |-> Readable(<<NoKeyGrid, BadPctGrid>>)],
      [name |-> PdfName(Y("5"), "5"), pdf |-> Readable(<<BlankMonthGrid>>)],
      [name |-> PdfName(Y("6"), "6"), pdf |-> Readable(<<TwinColumnGrid, PlainGrid>>)],
      [name |-> PdfName(<<"2","0","2","0">>, "7"), pdf |-> Readable(<<HeaderOnlyGrid, PlainGrid>>)],
      [name |-> PdfName(Y("8"), "8"), pdf |-> Readable(<<TwinColumnGrid>>)],
      [name |-> PdfName(Y("9"), "9"), pdf |-> Readable(<<MonthGrid>>)] }

(* the folders: at most MaxPdfs files *)
Folders == {F \in SUBSET PdfPool : Cardinality(F) <= MaxPdfs}

(* the orders in which glob can yield the files of a folder *)
GlobOrders(F) ==
    {q \in [1..Cardinality(F) -> F] : \A x \in F : \E k \in 1..Cardinality(F) : q[k] = x}

(***************************************************************************)
(* State of one call process_pdf(pdf_filename).                            *)
(***************************************************************************)
VARIABLES
    pdf_filename,              \* the argument
    pdf,                       \* what camelot.read_pdf finds in the file
    pc,                        \* position in process_pdf
    pfi,                       \* line 30
    file_year,                 \* lines 32-38
    tables,                    \* the detected tables: [columns, data] of table.df
    i,                         \* index of the table being processed (from 1)
    processed_tables_for_pdf,  \* line 25
    outcomes,                  \* per table: "accepted", "skipped" or the exception logged
    result                     \* the returned list

pdfVars == <<pdf_filename, pdf, pc, pfi, file_year, tables, i,
             processed_tables_for_pdf, outcomes, result>>

(***************************************************************************)
(* State of one call extract_compliance_data().                            *)
(***************************************************************************)
VARIABLES
    pdf_folder,                \* the files *.pdf of the folder: [name, pdf]
    apc,                       \* position in extract_compliance_data
    pdf_list,                  \* line 113, in the order glob yields the files
    d,                         \* index of the file being processed (from 1)
    all_tables_dfs,            \* line 109
    pdfs_processed_count,      \* line 110
    tables_extracted_count,    \* line 111
    final_df,                  \* lines 144-151
    csv,                       \* the file of line 154: [columns, data], or [written, text]
    raised,                    \* the exception that left the call
    all_origin,                \* history: per frame of all_tables_dfs, <<file name, table number>>
    final_origin               \* history: per row of final_df, <<file name, table number, row label>>

aggVars == <<pdf_folder, apc, pdf_list, d, all_tables_dfs, pdfs_processed_count,
             tables_extracted_count, final_df, csv, raised, all_origin, final_origin>>

(***************************************************************************)
(* State of one call run_pipeline() (main.py).                             *)
(***************************************************************************)
VARIABLES
    ppc,                       \* position in run_pipeline
    step,                      \* the step (1, 2, 3) the call is at
    all_steps_successful,      \* line 52
    behaviour,                 \* what each step's function does when called
    calls,                     \* history: the functions called, in order
    log                        \* the logging records: <<level, message>>

pipeVars == <<ppc, step, all_steps_successful, behaviour, calls, log>>

(***************************************************************************)
(* State of one call parse_audit_report(report_url, report_name_info).     *)
(***************************************************************************)
VARIABLES
    qpc,                       \* position in parse_audit_report
    page,                      \* what requests.get(report_url) finds
    report_name_info,          \* the argument
    header_row,                \* lines 39-42
    data_rows,                 \* lines 45-57
    report_type,               \* line 51
    date_published,            \* line 52
    parse_result,              \* the returned value
    parse_exc,                 \* the exception caught at lines 76-81
    parse_log,                 \* the levels of the records logged
    output_files               \* the CSV files under output/: [path, header, rows]

parseVars == <<qpc, page, report_name_info, header_row, data_rows, report_type,
               date_published, parse_result, parse_exc, parse_log, output_files>>

(***************************************************************************)
(* State of one call extract_audit_data().                                 *)
(***************************************************************************)
VARIABLES
    xpc,                       \* position in extract_audit_data
    listing,                   \* what requests.get(base_url) finds: [ok, hrefs]
    link_pages,                \* what requests.get finds at each href of the listing
    tag_index,                       \* index of the a tag examined at lines 106-112 (from 1)
    audit_links,               \* line 105
    link_index,                \* index of the link being processed (i + 1)
    successful_extractions,    \* line 121
    attempts,                  \* history: <<url, report_name_info>> per call of parse_audit_report
    audit_raised               \* the exception that left the call

auditVars == <<xpc, listing, link_pages, tag_index, audit_links, link_index,
               successful_extractions, attempts, audit_raised>>

(***************************************************************************)
(* State of one call pull_compliance_pdfs().                               *)
(***************************************************************************)
VARIABLES
    upc,                       \* position in pull_compliance_pdfs
    reports_page,              \* what requests.get(REPORTS_URL) finds: [ok, hrefs]
    mkdir_ok,                  \* whether pdfs/ can be created
    downloads,                 \* what happens to the download of each URL
    pdf_urls,                  \* line 58
    url_index,                       \* index of the URL being downloaded (from 1)
    successful_downloads,      \* line 74
    failed_downloads,          \* line 75
    tried,                     \* history: the URLs the loop has handled
    saved,                     \* the files written under pdfs/
    pull_raised                \* the exception that left the call

pullVars == <<upc, reports_page, mkdir_ok, downloads, pdf_urls, url_index, successful_downloads,
              failed_downloads, tried, saved, pull_raised>>

restVars == <<pipeVars, parseVars, auditVars, pullVars>>

vars == <<pdfVars, aggVars, restVars>>

PipelineNotCalled ==
    /\ ppc = "idle"
    /\ step = 0
    /\ all_steps_successful = TRUE
    /\ behaviour = <<>>
    /\ calls = <<>>
    /\ log = <<>>

ParseNotCalled ==
    /\ qpc = "idle"
    /\ page = [ok |-> FALSE]
    /\ report_name_info = <<>>
    /\ header_row = <<>>
    /\ data_rows = <<>>
    /\ report_type = <<>>
    /\ date_published = <<>>
    /\ parse_result = "none"
    /\ parse_exc = ""
    /\ parse_log = <<>>
    /\ output_files = {}

AuditNotCalled ==
    /\ xpc = "idle"
    /\ listing = [ok |-> FALSE, hrefs |-> <<>>]
    /\ link_pages = <<>>
    /\ tag_index = 0
    /\ audit_links = <<>>
    /\ link_index = 0
    /\ successful_extractions = 0
    /\ attempts = <<>>
    /\ audit_raised = ""

PullNotCalled ==
    /\ upc = "idle"
    /\ reports_page = [ok |-> FALSE, hrefs |-> <<>>]
    /\ mkdir_ok = TRUE
    /\ downloads = <<>>
    /\ pdf_urls = <<>>
    /\ url_index = 0
    /\ successful_downloads = 0
    /\ failed_downloads = 0
    /\ tried = <<>>
    /\ saved = {}
    /\ pull_raised = ""

RestNotCalled ==
    /\ PipelineNotCalled
    /\ ParseNotCalled
    /\ AuditNotCalled
    /\ PullNotCalled

NotSet == <<"NotSet">>

(* SPARCS_Compliance_Report.csv has not been written by this call *)
NoFile == [written |-> FALSE]

(* extract_compliance_data is not running *)
NotCalled ==
    /\ pdf_folder = {}
    /\ apc = "idle"
    /\ pdf_list = <<>>
    /\ d = 0
    /\ all_tables_dfs = <<>>
    /\ pdfs_processed_count = 0
    /\ tables_extracted_count = 0
    /\ final_df = NotSet
    /\ csv = NoFile
    /\ raised = ""
    /\ all_origin = <<>>
    /\ final_origin = <<>>

Init ==
    /\ NotCalled
    /\ RestNotCalled
    /\ \/ pdf \in OneTablePdfs /\ pdf_filename = StandardName
       \/ pdf \in ManyTablePdfs /\ pdf_filename \in FileNames
    /\ pc = "start"
    /\ pfi = NotSet
    /\ file_year = NotSet
    /\ tables = <<>>
    /\ i = 0
    /\ processed_tables_for_pdf = <<>>
    /\ outcomes = <<>>
    /\ result = NotSet

(* lines 29-38 *)
ParseFileName ==
    /\ pc = "start"
    /\ pfi' = pfi_of(pdf_filename)
    /\ file_year' = file_year_of(pdf_filename)
    /\ pc' = "read"
    /\ UNCHANGED <<pdf_filename, pdf, tables, i, processed_tables_for_pdf, outcomes, result>>
    /\ UNCHANGED aggVars
    /\ UNCHANGED restVars

(* line 41, camelot.read_pdf returns *)
ReadPdf ==
    /\ pc = "read"
    /\ pdf.readable
    /\ tables' = [k \in 1..Len(pdf.grids) |->
                    [columns |-> RangeColumns(pdf.grids[k]), data |-> pdf.grids[k]]]
    /\ i' = 1
    /\ pc' = "loop"
    /\ UNCHANGED <<pdf_filename, pdf, pfi, file_year, processed_tables_for_pdf, outcomes, result>>
    /\ UNCHANGED aggVars
    /\ UNCHANGED restVars

(* line 41 raises: lines 89-94 return [] *)
ReadPdfFails ==
    /\ pc = "read"
    /\ ~pdf.readable
    /\ result' = <<>>
    /\ pc' = "done"
    /\ UNCHANGED <<pdf_filename, pdf, pfi, file_year, tables, i, processed_tables_for_pdf, outcomes>>
    /\ UNCHANGED aggVars
    /\ UNCHANGED restVars

Current == ProcessTable(tables[i].data, pfi, file_year)

InLoop == pc = "loop" /\ i <= Len(tables)

(* lines 56-58: the sanity check skips the table *)
SkipTable ==
    /\ InLoop
    /\ Current.status = "skipped"
    /\ tables' = [tables EXCEPT ![i].columns = Current.columns]
    /\ outcomes' = Append(outcomes, "skipped")
    /\ i' = i + 1
    /\ UNCHANGED <<pdf_filename, pdf, pc, pfi, file_year, processed_tables_for_pdf, result>>
    /\ UNCHANGED aggVars
    /\ UNCHANGED restVars

(* an exception of the try block leaves the loop: lines 92-94 return [] *)
FailTableAborts ==
    /\ InLoop
    /\ Current.status = "error"
    /\ tables' = [tables EXCEPT ![i].columns = Current.columns]
    /\ outcomes' = Append(outcomes, Current.exc)
    /\ result' = <<>>
    /\ pc' = "done"
    /\ UNCHANGED <<pdf_filename, pdf, pfi, file_year, i, processed_tables_for_pdf>>
    /\ UNCHANGED aggVars
    /\ UNCHANGED restVars

(* lines 84-85: an exception of the try block is logged, the table is dropped *)
FailTable ==
    /\ InLoop
    /\ Current.status = "error"
    /\ tables' = [tables EXCEPT ![i].columns = Current.columns]
    /\ outcomes' = Append(outcomes, Current.exc)
    /\ i' = i + 1
    /\ UNCHANGED <<pdf_filename, pdf, pc, pfi, file_year, processed_tables_for_pdf, result>>
    /\ UNCHANGED aggVars
    /\ UNCHANGED restVars

(* lines 82-83 *)
AcceptTable ==
    /\ InLoop
    /\ Current.status = "accepted"
    /\ tables' = [tables EXCEPT ![i].columns = Current.columns]
    /\ processed_tables_for_pdf' = Append(processed_tables_for_pdf, Current.df)
    /\ outcomes' = Append(outcomes, "accepted")
    /\ i' = i + 1
    /\ UNCHANGED <<pdf_filename, pdf, pc, pfi, file_year, result>>
    /\ UNCHANGED aggVars
    /\ UNCHANGED restVars

(* line 87 *)
Return ==
    /\ pc = "loop"
    /\ i > Len(tables)
    /\ result' = processed_tables_for_pdf
    /\ pc' = "done"
    /\ UNCHANGED <<pdf_filename, pdf, pfi, file_year, tables, i, processed_tables_for_pdf, outcomes>>
    /\ UNCHANGED aggVars
    /\ UNCHANGED restVars

Next ==
    \/ ParseFileName
    \/ ReadPdf
    \/ ReadPdfFails
    \/ SkipTable
    \/ FailTable
    \/ AcceptTable
    \/ Return

Spec == Init /\ [][Next]_vars

(***************************************************************************)
(* extract_compliance_data (lines 96-162).                                 *)
(***************************************************************************)
HasTwinColumns(columns) ==
    \E a, b \in 1..Len(columns) : a # b /\ columns[a] = columns[b]

(* the union of the column labels, each at its first place *)
RECURSIVE UnionColumns(_, _, _)
UnionColumns(frames, n, seen) ==
    IF n > Len(frames) THEN seen
    ELSE UnionColumns(frames, n + 1,
            seen \o SelectSeq(frames[n].columns,
                              LAMBDA c : \A j \in 1..Len(seen) : seen[j] # c))

(* the rows of a frame laid out on the columns of the result *)
Reindexed(df, columns) ==
    [k \in 1..Len(df.data) |->
        [j \in 1..Len(columns) |->
            LET P == Positions(df.columns, columns[j])
            IN  IF P = {} THEN NaN ELSE df.data[k][CHOOSE q \in P : TRUE]]]

RECURSIVE ConcatRows(_, _, _)
ConcatRows(frames, n, columns) ==
    IF n > Len(frames) THEN <<>>
    ELSE (IF frames[n].columns = columns THEN frames[n].data
          ELSE Reindexed(frames[n], columns))
         \o ConcatRows(frames, n + 1, columns)

RangeFrame(columns, data) ==
    [columns |-> columns, index |-> [k \in 1..Len(data) |-> k - 1], data |-> data]

(* line 144, pd.concat(frames, ignore_index=True): frames whose column      *)
(* indexes are all equal are stacked as they are; otherwise every frame is  *)
(* reindexed on the union of the labels, which pandas refuses for a frame   *)
(* with a repeated label (InvalidIndexError)                                *)
Concat(frames) ==
    IF \A n \in 1..Len(frames) : frames[n].columns = frames[1].columns
    THEN [exc |-> "", df |-> RangeFrame(frames[1].columns,
                                        ConcatRows(frames, 1, frames[1].columns))]
    ELSE IF \E n \in 1..Len(frames) : HasTwinColumns(frames[n].columns)
    THEN [exc |-> "InvalidIndexError", df |-> NoFrame]
    ELSE [exc |-> "", df |-> RangeFrame(UnionColumns(frames, 1, <<>>),
                                        ConcatRows(frames, 1, UnionColumns(frames, 1, <<>>)))]

(* lines 147-151: the row positions kept by the DISCHARGE_MONTH filter; all *)
(* of them when the frame has no such column (the modelled tables have at   *)
(* most one column of that name)                                            *)
MonthPresentAll(df) == 1..Len(df.data)

MonthPresent(df) ==
    LET P == Positions(df.columns, DISCHARGE_MONTH)
    IN  IF P = {} THEN 1..Len(df.data)
        ELSE {k \in 1..Len(df.data) : df.data[k][CHOOSE q \in P : TRUE] # NaN}

(* line 154, to_csv(index=False): the header and the rows, a missing value  *)
(* written as the empty field                                               *)
ToCsv(df) ==
    [columns |-> df.columns,
     data |-> [k \in 1..Len(df.data) |->
                 [j \in 1..Len(df.columns) |->
                     IF df.data[k][j] = NaN THEN <<>> ELSE df.data[k][j]]]]

(* history: where the rows of the frames of all_tables_dfs come from *)
RECURSIVE RowOrigins(_, _, _)
RowOrigins(frames, origins, n) ==
    IF n > Len(frames) THEN <<>>
    ELSE [k \in 1..Len(frames[n].data) |->
             <<origins[n][1], origins[n][2], frames[n].index[k]>>]
         \o RowOrigins(frames, origins, n + 1)

InitAgg ==
    /\ RestNotCalled
    /\ pdf_folder \in Folders
    /\ apc = "check"
    /\ pdf_list = <<>>
    /\ d = 0
    /\ all_tables_dfs = <<>>
    /\ pdfs_processed_count = 0
    /\ tables_extracted_count = 0
    /\ final_df = NotSet
    /\ csv = NoFile
    /\ raised = ""
    /\ all_origin = <<>>
    /\ final_origin = <<>>
    /\ pdf_filename = <<>>
    /\ pdf = [readable |-> FALSE, grids |-> <<>>]
    /\ pc = "idle"
    /\ pfi = NotSet
    /\ file_year = NotSet
    /\ tables = <<>>
    /\ i = 0
    /\ processed_tables_for_pdf = <<>>
    /\ outcomes = <<>>
    /\ result = NotSet

(* lines 104-107 (and 114-117): no PDF file in the folder *)
NoPdfs ==
    /\ apc = "check"
    /\ pdf_folder = {}
    /\ raised' = "RuntimeError"
    /\ apc' = "raised"
    /\ UNCHANGED <<pdf_folder, pdf_list, d, all_tables_dfs, pdfs_processed_count,
                   tables_extracted_count, final_df, csv, all_origin, final_origin>>
    /\ UNCHANGED pdfVars
    /\ UNCHANGED restVars

(* lines 109-113: glob yields the files in an order of its own *)
ListPdfs ==
    /\ apc = "check"
    /\ pdf_folder # {}
    /\ \E order \in GlobOrders(pdf_folder) : pdf_list' = order
    /\ d' = 1
    /\ apc' = "loop"
    /\ UNCHANGED <<pdf_folder, all_tables_dfs, pdfs_processed_count,
                   tables_extracted_count, final_df, csv, raised, all_origin, final_origin>>
    /\ UNCHANGED pdfVars
    /\ UNCHANGED restVars

(* line 125: process_pdf(str(pdf_file_path)) is called *)
CallProcessPdf ==
    /\ apc = "loop"
    /\ d <= Len(pdf_list)
    /\ pdf_filename' = pdf_list[d].name
    /\ pdf' = pdf_list[d].pdf
    /\ pc' = "start"
    /\ pfi' = NotSet
    /\ file_year' = NotSet
    /\ tables' = <<>>
    /\ i' = 0
    /\ processed_tables_for_pdf' = <<>>
    /\ outcomes' = <<>>
    /\ result' = NotSet
    /\ apc' = "call"
    /\ UNCHANGED <<pdf_folder, pdf_list, d, all_tables_dfs, pdfs_processed_count,
                   tables_extracted_count, final_df, csv, raised, all_origin, final_origin>>
    /\ UNCHANGED restVars

(* lines 126-129: the frames process_pdf returned are collected *)
CollectTables ==
    /\ apc = "call"
    /\ pc = "done"
    /\ all_tables_dfs' = all_tables_dfs \o result
    /\ tables_extracted_count' = tables_extracted_count + Len(result)
    /\ pdfs_processed_count' = pdfs_processed_count + 1
    /\ all_origin' = all_origin \o
          [n \in 1..Len(result) |->
              <<pdf_filename,
                CHOOSE t \in 1..Len(outcomes) :
                    /\ outcomes[t] = "accepted"
                    /\ Cardinality({u \in 1..t : outcomes[u] = "accepted"}) = n>>]
    /\ d' = d + 1
    /\ apc' = "loop"
    /\ UNCHANGED <<pdf_folder, pdf_list, final_df, csv, raised, final_origin>>
    /\ UNCHANGED pdfVars
    /\ UNCHANGED restVars

LoopDone == apc = "loop" /\ d > Len(pdf_list)

(* no table was collected: an empty report is written *)
NoTablesWritesEmpty ==
    /\ LoopDone
    /\ all_tables_dfs = <<>>
    /\ csv' = [columns |-> <<>>, data |-> <<>>]
    /\ apc' = "done"
    /\ UNCHANGED <<pdf_folder, pdf_list, d, all_tables_dfs, pdfs_processed_count,
                   tables_extracted_count, final_df, raised, all_origin, final_origin>>
    /\ UNCHANGED pdfVars
    /\ UNCHANGED restVars

(* lines 137-140: no table was collected *)
NoTables ==
    /\ LoopDone
    /\ all_tables_dfs = <<>>
    /\ raised' = "RuntimeError"
    /\ apc' = "raised"
    /\ UNCHANGED <<pdf_folder, pdf_list, d, all_tables_dfs, pdfs_processed_count,
                   tables_extracted_count, final_df, csv, all_origin, final_origin>>
    /\ UNCHANGED pdfVars
    /\ UNCHANGED restVars

(* line 144 raises: lines 156-159 raise RuntimeError from it *)
ConcatFails ==
    /\ LoopDone
    /\ all_tables_dfs # <<>>
    /\ Concat(all_tables_dfs).exc # ""
    /\ raised' = "RuntimeError"
    /\ apc' = "raised"
    /\ UNCHANGED <<pdf_folder, pdf_list, d, all_tables_dfs, pdfs_processed_count,
                   tables_extracted_count, final_df, csv, all_origin, final_origin>>
    /\ UNCHANGED pdfVars
    /\ UNCHANGED restVars

(***************************************************************************)
(* The bytes of the report, as to_csv (line 154) writes them through        *)
(* csv.writer with its defaults and the line end "\n".                      *)
(***************************************************************************)

(* repr of a float, which to_csv writes for a number: the digits sig of the *)
(* shortest decimal with the point after the first decpt of them, and with  *)
(* an exponent when the number is below 0.0001 or from 10^16 on             *)
ReprFixed(sig, decpt) ==
    IF decpt <= 0 THEN <<"0", ".">> \o [k \in 1..(-decpt) |-> "0"] \o sig
    ELSE IF decpt >= Len(sig) THEN sig \o [k \in 1..(decpt - Len(sig)) |-> "0"] \o <<".", "0">>
    ELSE SubSeq(sig, 1, decpt) \o <<".">> \o SubSeq(sig, decpt + 1, Len(sig))

ReprExponent(sig, x) ==
    <<sig[1]>> \o (IF Len(sig) > 1 THEN <<".">> \o Tail(sig) ELSE <<>>)
    \o <<"e", IF x < 0 THEN "-" ELSE "+">>
    \o (IF x > -10 /\ x < 10 THEN <<"0">> ELSE <<>>) \o Decimal(IF x < 0 THEN -x ELSE x)

ReprDigits(sig, decpt) ==
    IF decpt > -4 /\ decpt <= 16 THEN ReprFixed(sig, decpt) ELSE ReprExponent(sig, decpt - 1)

FloatText(v) ==
    IF v = Inf THEN <<"i", "n", "f">>
    ELSE IF v = NegInf THEN <<"-", "i", "n", "f">>
    ELSE (IF IsNegative(v) THEN <<"-">> ELSE <<>>)
         \o (IF Mantissa(v) = <<"0">> THEN <<"0", ".", "0">>
             ELSE ReprDigits(RStripZeros(Mantissa(v)), Len(Mantissa(v)) - v[3]))

(* the text to_csv writes for a cell: nothing for a missing value *)
FieldText(v) == IF v = NaN THEN <<>> ELSE IF IsNum(v) THEN FloatText(v) ELSE v

(* csv.writer, QUOTE_MINIMAL: a field holding a comma, a quote or a newline *)
(* is written between quotes, its quotes doubled                            *)
CsvField(text) ==
    IF \E k \in 1..Len(text) : text[k] \in {",", "\"", "\n"}
    THEN <<"\"">> \o Replace(text, "\"", <<"\"", "\"">>) \o <<"\"">>
    ELSE text

RECURSIVE JoinComma(_)
JoinComma(texts) ==
    IF texts = <<>> THEN <<>>
    ELSE IF Len(texts) = 1 THEN texts[1]
    ELSE texts[1] \o <<",">> \o JoinComma(Tail(texts))

(* csv.writer.writerow: the fields between commas and the line end; a row   *)
(* of one empty field is written as two quotes                              *)
CsvLine(cells) ==
    IF Len(cells) = 1 /\ FieldText(cells[1]) = <<>> THEN <<"\"", "\"", "\n">>
    ELSE JoinComma([k \in 1..Len(cells) |-> CsvField(FieldText(cells[k]))]) \o <<"\n">>

RECURSIVE CsvLines(_)
CsvLines(rows) == IF rows = <<>> THEN <<>> ELSE CsvLine(Head(rows)) \o CsvLines(Tail(rows))

(* the bytes of a written file: the header line and one line for each row *)
CsvText(file) == CsvLine(file.columns) \o CsvLines(file.data)

(* a file that holds only the first n bytes of a text *)
CutFile(text, n) == [written |-> TRUE, text |-> SubSeq(text, 1, n)]

(* what a to_csv that does not finish leaves at the path of the report:     *)
(* nothing (it stopped before the file was opened), or a file with the      *)
(* first bytes of the report, from none of them to all but the last         *)
UnfinishedFiles(df) ==
    {NoFile} \cup {CutFile(CsvText(ToCsv(df)), n) : n \in 0..(Len(CsvText(ToCsv(df))) - 1)}

(* lines 144-154 and 156-159: the frames are concatenated and filtered,     *)
(* to_csv raises (OSError), and RuntimeError is raised from it; the file    *)
(* holds what was written before the error, all of the report when the      *)
(* error came as the file was closed                                        *)
WriteReportFails ==
    /\ LoopDone
    /\ all_tables_dfs # <<>>
    /\ Concat(all_tables_dfs).exc = ""
    /\ LET whole == Concat(all_tables_dfs).df
       IN  /\ final_df' = KeepRows(whole, MonthPresent(whole))
           /\ csv' \in UnfinishedFiles(KeepRows(whole, MonthPresent(whole)))
                           \cup {ToCsv(KeepRows(whole, MonthPresent(whole)))}
           /\ final_origin' = SelectPos(RowOrigins(all_tables_dfs, all_origin, 1),
                                        MonthPresent(whole), 1)
    /\ raised' = "RuntimeError"
    /\ apc' = "raised"
    /\ UNCHANGED <<pdf_folder, pdf_list, d, all_tables_dfs, pdfs_processed_count,
                   tables_extracted_count, all_origin>>
    /\ UNCHANGED pdfVars
    /\ UNCHANGED restVars

(* lines 144-161: the run is aborted (see Abort) after the frames were      *)
(* concatenated: before line 147 has assigned the filtered frame, while     *)
(* to_csv is writing (line 154), or after it has returned, in one of the    *)
(* logging calls of lines 155 and 161, the report being complete            *)
AbortInWrite ==
    /\ LoopDone
    /\ all_tables_dfs # <<>>
    /\ Concat(all_tables_dfs).exc = ""
    /\ LET whole == Concat(all_tables_dfs).df
       IN  \/ /\ final_df' = whole
              /\ csv' = csv
              /\ final_origin' = RowOrigins(all_tables_dfs, all_origin, 1)
           \/ /\ final_df' = KeepRows(whole, MonthPresent(whole))
              /\ csv' \in UnfinishedFiles(KeepRows(whole, MonthPresent(whole)))
                              \cup {ToCsv(KeepRows(whole, MonthPresent(whole)))}
              /\ final_origin' = SelectPos(RowOrigins(all_tables_dfs, all_origin, 1),
                                           MonthPresent(whole), 1)
    /\ apc' = "aborted"
    /\ UNCHANGED <<pdf_folder, pdf_list, d, all_tables_dfs, pdfs_processed_count,
                   tables_extracted_count, raised, all_origin>>
    /\ UNCHANGED pdfVars
    /\ UNCHANGED restVars

(* lines 144-155: the frames are concatenated, filtered and written *)
WriteReport ==
    /\ LoopDone
    /\ all_tables_dfs # <<>>
    /\ Concat(all_tables_dfs).exc = ""
    /\ LET whole == Concat(all_tables_dfs).df
       IN  /\ final_df' = KeepRows(whole, MonthPresent(whole))
           /\ csv' = ToCsv(KeepRows(whole, MonthPresent(whole)))
           /\ final_origin' = SelectPos(RowOrigins(all_tables_dfs, all_origin, 1),
                                        MonthPresent(whole), 1)
    /\ apc' = "done"
    /\ UNCHANGED <<pdf_folder, pdf_list, d, all_tables_dfs, pdfs_processed_count,
                   tables_extracted_count, raised, all_origin>>
    /\ UNCHANGED pdfVars
    /\ UNCHANGED restVars

(* the run is aborted before the loop has ended (KeyboardInterrupt,        *)
(* SystemExit or the end of the process: none is an Exception, so lines     *)
(* 84, 92, 130 and 156 let it pass)                                         *)
Abort ==
    /\ apc \in {"check", "loop", "call"}
    /\ apc' = "aborted"
    /\ pc' = IF apc = "call" THEN "aborted" ELSE pc
    /\ UNCHANGED <<pdf_folder, pdf_list, d, all_tables_dfs, pdfs_processed_count,
                   tables_extracted_count, final_df, csv, raised, all_origin, final_origin>>
    /\ UNCHANGED <<pdf_filename, pdf, pfi, file_year, tables, i,
                   processed_tables_for_pdf, outcomes, result>>
    /\ UNCHANGED restVars

NextAgg ==
    \/ NoPdfs
    \/ ListPdfs
    \/ CallProcessPdf
    \/ ParseFileName
    \/ ReadPdf
    \/ ReadPdfFails
    \/ SkipTable
    \/ FailTable
    \/ AcceptTable
    \/ Return
    \/ CollectTables
    \/ NoTables
    \/ ConcatFails
    \/ WriteReport
    \/ WriteReportFails
    \/ AbortInWrite
    \/ Abort

SpecAgg == InitAgg /\ [][NextAgg]_vars

(***************************************************************************)
(* run_pipeline (main.py, lines 46-96).  The three step functions are the   *)
(* callees; what a call of each does (it returns, raises RuntimeError, or   *)
(* raises another Exception) is given by behaviour.                         *)
(***************************************************************************)
StepFunctions == <<"pull_compliance_pdfs", "extract_compliance_data", "extract_audit_data">>

StepOutcomes == {"return", "RuntimeError", "Exception"}

StartingMsg == "Starting the SPARCS data processing pipeline..."
StepStartMsg ==
    << "Step 1: Downloading compliance PDF reports...",
       "Step 2: Extracting and processing tables from compliance PDFs...",
       "Step 3: Processing audit report HTML tables..." >>
StepDoneMsg ==
    << "Step 1: Compliance PDF reports download completed successfully.",
       "Step 2: Compliance PDF table extraction completed successfully.",
       "Step 3: Audit report HTML table processing completed successfully." >>
(* the error messages, without the text of the exception that follows *)
StepFailedMsg ==
    << "Step 1: Failed to download compliance PDF reports. Error: ",
       "Step 2: Failed to extract compliance data. Error: ",
       "Step 3: Failed to process audit report HTML tables. Error: " >>
StepUnexpectedMsg ==
    << "Step 1: An unexpected error occurred during compliance PDF download. Error: ",
       "Step 2: An unexpected error occurred during compliance data extraction. Error: ",
       "Step 3: An unexpected error occurred during audit report processing. Error: " >>
SuccessMsg == "SPARCS data processing pipeline finished successfully."
WithErrorsMsg ==
    "SPARCS data processing pipeline finished with errors. Not all steps were successful."

InitPipe ==
    /\ NotCalled
    /\ pdf_filename = <<>>
    /\ pdf = [readable |-> FALSE, grids |-> <<>>]
    /\ pc = "idle"
    /\ pfi = NotSet
    /\ file_year = NotSet
    /\ tables = <<>>
    /\ i = 0
    /\ processed_tables_for_pdf = <<>>
    /\ outcomes = <<>>
    /\ result = NotSet
    /\ ParseNotCalled
    /\ AuditNotCalled
    /\ PullNotCalled
    /\ ppc = "start"
    /\ step = 0
    /\ all_steps_successful = TRUE
    /\ behaviour \in [1..3 -> StepOutcomes]
    /\ calls = <<>>
    /\ log = <<>>

PipeFrame == UNCHANGED <<pdfVars, aggVars, parseVars, auditVars, pullVars>>

(* lines 51-52 *)
StartPipeline ==
    /\ ppc = "start"
    /\ log' = Append(log, <<"info", StartingMsg>>)
    /\ all_steps_successful' = TRUE
    /\ step' = 1
    /\ ppc' = "check"
    /\ UNCHANGED <<behaviour, calls>>
    /\ PipeFrame

(* lines 55-58, 68-71, 81-84: the step is entered and its function called *)
EnterStep ==
    /\ ppc = "check"
    /\ step <= 3
    /\ all_steps_successful
    /\ log' = Append(log, <<"info", StepStartMsg[step]>>)
    /\ calls' = Append(calls, StepFunctions[step])
    /\ ppc' = "call"
    /\ UNCHANGED <<step, all_steps_successful, behaviour>>
    /\ PipeFrame

(* lines 55, 68, 81: an earlier step failed, the step is not entered *)
SkipStep ==
    /\ ppc = "check"
    /\ step <= 3
    /\ ~all_steps_successful
    /\ step' = step + 1
    /\ UNCHANGED <<ppc, all_steps_successful, behaviour, calls, log>>
    /\ PipeFrame

(* lines 59, 72, 85 *)
StepReturns ==
    /\ ppc = "call"
    /\ behaviour[step] = "return"
    /\ log' = Append(log, <<"info", StepDoneMsg[step]>>)
    /\ step' = step + 1
    /\ ppc' = "check"
    /\ UNCHANGED <<all_steps_successful, behaviour, calls>>
    /\ PipeFrame

(* lines 60-62, 73-75, 86-88 *)
StepRaisesRuntimeError ==
    /\ ppc = "call"
    /\ behaviour[step] = "RuntimeError"
    /\ log' = Append(log, <<"error", StepFailedMsg[step]>>)
    /\ all_steps_successful' = FALSE
    /\ step' = step + 1
    /\ ppc' = "check"
    /\ UNCHANGED <<behaviour, calls>>
    /\ PipeFrame

(* the unexpected exception is logged and the pipeline goes on *)
StepRaisesExceptionIgnored ==
    /\ ppc = "call"
    /\ behaviour[step] = "Exception"
    /\ log' = Append(log, <<"error", StepUnexpectedMsg[step]>>)
    /\ step' = step + 1
    /\ ppc' = "check"
    /\ UNCHANGED <<all_steps_successful, behaviour, calls>>
    /\ PipeFrame

(* lines 63-65, 76-78, 89-91 *)
StepRaisesException ==
    /\ ppc = "call"
    /\ behaviour[step] = "Exception"
    /\ log' = Append(log, <<"error", StepUnexpectedMsg[step]>>)
    /\ all_steps_successful' = FALSE
    /\ step' = step + 1
    /\ ppc' = "check"
    /\ UNCHANGED <<behaviour, calls>>
    /\ PipeFrame

(* the success message is logged whatever happened *)
LogFinalSuccess ==
    /\ ppc = "check"
    /\ step = 4
    /\ log' = Append(log, <<"info", SuccessMsg>>)
    /\ ppc' = "done"
    /\ UNCHANGED <<step, all_steps_successful, behaviour, calls>>
    /\ PipeFrame

(* lines 93-96, then run_pipeline returns *)
LogFinal ==
    /\ ppc = "check"
    /\ step = 4
    /\ log' = Append(log, IF all_steps_successful
                          THEN <<"info", SuccessMsg>>
                          ELSE <<"error", WithErrorsMsg>>)
    /\ ppc' = "done"
    /\ UNCHANGED <<step, all_steps_successful, behaviour, calls>>
    /\ PipeFrame

NextPipe ==
    \/ StartPipeline
    \/ EnterStep
    \/ SkipStep
    \/ StepReturns
    \/ StepRaisesRuntimeError
    \/ StepRaisesException
    \/ LogFinal

SpecPipe == InitPipe /\ [][NextPipe]_vars

(***************************************************************************)
(* parse_audit_report (audit_report_table_extractor.py, lines 12-81).       *)
(*                                                                         *)
(* A page is what requests.get and BeautifulSoup give for the report URL:   *)
(* ok tells whether the request succeeded, has_table whether the page has   *)
(* a table of class "table", trs are the tr elements of that table in page  *)
(* order, each with the texts of its th and of its td elements, and the two *)
(* tags are the td elements of class "c systemtitle3" and "r systemtitle4". *)
(***************************************************************************)
MaxCols == 2

NoTag == [present |-> FALSE]
Tag(t) == [present |-> TRUE, text |-> t]

ReportTypeColumn == <<"R","e","p","o","r","t"," ","T","y","p","e">>
DatePublishedColumn == <<"D","a","t","e"," ","P","u","b","l","i","s","h","e","d">>
UnknownReportType == <<"U","n","k","n","o","w","n"," ","R","e","p","o","r","t"," ","T","y","p","e">>
UnknownDate == <<"U","n","k","n","o","w","n"," ","D","a","t","e">>

(* str.strip() of every text of a list *)
StripAll(texts) == [k \in 1..Len(texts) |-> StripWs(texts[k])]

(* line 39: the texts of every th of the table, in page order *)
RECURSIVE AllThs(_)
AllThs(trs) == IF trs = <<>> THEN <<>> ELSE StripAll(Head(trs).ths) \o AllThs(Tail(trs))

(* lines 39-42 *)
HeaderRowOf(p) == AllThs(p.trs) \o <<ReportTypeColumn, DatePublishedColumn>>

(* lines 48-52 *)
TagText(tag, default) == IF tag.present THEN StripWs(tag.text) ELSE default

(* lines 54-57: every tr but the first *)
DataRowsOf(p, type, date) ==
    [k \in 1..(Len(p.trs) - 1) |-> StripAll(p.trs[k + 1].tds) \o <<type, date>>]

(* the width pd.DataFrame gives to a list of rows: that of the longest row *)
RECURSIVE RowsWidth(_)
RowsWidth(rows) ==
    IF rows = <<>> THEN 0
    ELSE LET w == RowsWidth(Tail(rows))
         IN  IF Len(Head(rows)) > w THEN Len(Head(rows)) ELSE w

(* line 64: pd.DataFrame(data_rows, columns=header_row) raises ValueError   *)
(* unless there are as many column labels as the rows are wide              *)
FrameFits(header, rows) == Len(header) = RowsWidth(rows)

(* line 71 *)
CsvPath(name) == <<"o","u","t","p","u","t","/">> \o name \o <<".","c","s","v">>

Facility == <<" ","F","a","c","i","l","i","t","y"," ">>
Count == <<"C","o","u","n","t">>

HeaderTr(ths) == [ths |-> ths, tds |-> <<>>]
DataTr(tds) == [ths |-> <<>>, tds |-> tds]

CellTexts == { <<"A">>, <<" ","1","2"," ">> }

TrPool ==
    {HeaderTr([k \in 1..c |-> IF k = 1 THEN Facility ELSE Count]) : c \in 1..MaxCols}
    \cup {DataTr(r) : r \in {q \in SeqsUpTo(CellTexts, MaxCols) :
                                  /\ q # <<>>
                                  /\ q[1] = <<"A">>
                                  /\ \A k \in 2..Len(q) : q[k] = <<" ","1","2"," ">>}}
    \cup {DataTr(<<<<" ","1","2"," ">>>>)}

TagPool == {NoTag, Tag(<<" ","A","u","d","i","t"," ">>)}

ReportNames == { <<"a","u","d","i","t","_","2","0","2","3">> }

FailedPage ==
    [ok |-> FALSE, has_table |-> FALSE, trs |-> <<>>,
     report_type_tag |-> NoTag, date_published_tag |-> NoTag]

Pages ==
    {FailedPage}
    \cup {[ok |-> TRUE, has_table |-> FALSE, trs |-> <<>>,
           report_type_tag |-> a, date_published_tag |-> b] : a \in TagPool, b \in TagPool}
    \cup {[ok |-> TRUE, has_table |-> TRUE, trs |-> trs,
           report_type_tag |-> a, date_published_tag |-> b] :
             trs \in SeqsUpTo(TrPool, MaxRows + 1), a \in TagPool, b \in TagPool}

ParseFrame == UNCHANGED <<pdfVars, aggVars, pipeVars, auditVars, pullVars>>

InitParse ==
    /\ NotCalled
    /\ pdf_filename = <<>>
    /\ pdf = [readable |-> FALSE, grids |-> <<>>]
    /\ pc = "idle"
    /\ pfi = NotSet
    /\ file_year = NotSet
    /\ tables = <<>>
    /\ i = 0
    /\ processed_tables_for_pdf = <<>>
    /\ outcomes = <<>>
    /\ result = NotSet
    /\ PipelineNotCalled
    /\ AuditNotCalled
    /\ PullNotCalled
    /\ qpc = "fetch"
    /\ page \in Pages
    /\ report_name_info \in ReportNames
    /\ header_row = <<>>
    /\ data_rows = <<>>
    /\ report_type = <<>>
    /\ date_published = <<>>
    /\ parse_result = "none"
    /\ parse_exc = ""
    /\ parse_log = <<>>
    /\ output_files = {}

(* lines 20-26: the request fails *)
FetchFails ==
    /\ qpc = "fetch"
    /\ ~page.ok
    /\ parse_log' = parse_log \o << <<"info", "fetching">>, <<"error", "fetch failed">> >>
    /\ parse_result' = "False"
    /\ qpc' = "done"
    /\ UNCHANGED <<page, report_name_info, header_row, data_rows, report_type,
                   date_published, parse_exc, output_files>>
    /\ ParseFrame

(* lines 20-23 *)
FetchOk ==
    /\ qpc = "fetch"
    /\ page.ok
    /\ parse_log' = Append(parse_log, <<"info", "fetching">>)
    /\ qpc' = "parse"
    /\ UNCHANGED <<page, report_name_info, header_row, data_rows, report_type,
                   date_published, parse_result, parse_exc, output_files>>
    /\ ParseFrame

(* lines 33-36 *)
NoTableFound ==
    /\ qpc = "parse"
    /\ ~page.has_table
    /\ parse_log' = Append(parse_log, <<"warning", "no table">>)
    /\ parse_result' = "False"
    /\ qpc' = "done"
    /\ UNCHANGED <<page, report_name_info, header_row, data_rows, report_type,
                   date_published, parse_exc, output_files>>
    /\ ParseFrame

(* lines 39-57 *)
ExtractRows ==
    /\ qpc = "parse"
    /\ page.has_table
    /\ header_row' = HeaderRowOf(page)
    /\ report_type' = TagText(page.report_type_tag, UnknownReportType)
    /\ date_published' = TagText(page.date_published_tag, UnknownDate)
    /\ data_rows' = DataRowsOf(page, report_type', date_published')
    /\ qpc' = "rows"
    /\ UNCHANGED <<page, report_name_info, parse_result, parse_exc, parse_log, output_files>>
    /\ ParseFrame

(* a file with the header alone is written for a table without data rows *)
NoDataRowsWritesHeader ==
    /\ qpc = "rows"
    /\ data_rows = <<>>
    /\ parse_log' = Append(parse_log, <<"warning", "no data rows">>)
    /\ output_files' = output_files \cup
          {[path |-> CsvPath(report_name_info), header |-> header_row, rows |-> <<>>]}
    /\ parse_result' = "False"
    /\ qpc' = "done"
    /\ UNCHANGED <<page, report_name_info, header_row, data_rows, report_type,
                   date_published, parse_exc>>
    /\ ParseFrame

(* lines 59-61 *)
NoDataRows ==
    /\ qpc = "rows"
    /\ data_rows = <<>>
    /\ parse_log' = Append(parse_log, <<"warning", "no data rows">>)
    /\ parse_result' = "False"
    /\ qpc' = "done"
    /\ UNCHANGED <<page, report_name_info, header_row, data_rows, report_type,
                   date_published, parse_exc, output_files>>
    /\ ParseFrame

(* line 64 raises ValueError, caught at lines 79-81 *)
FrameRaises ==
    /\ qpc = "rows"
    /\ data_rows # <<>>
    /\ ~FrameFits(header_row, data_rows)
    /\ parse_exc' = "ValueError"
    /\ parse_log' = Append(parse_log, <<"error", "parsing or saving failed">>)
    /\ parse_result' = "False"
    /\ qpc' = "done"
    /\ UNCHANGED <<page, report_name_info, header_row, data_rows, report_type,
                   date_published, output_files>>
    /\ ParseFrame

(* lines 64-67: the frame is built, then Path("output") raises NameError,   *)
(* since the module does not import Path (lines 1-6); caught at lines 79-81.*)
(* Lines 68-74 (mkdir, to_csv, return True) and the OSError handler of      *)
(* lines 76-78 are never reached.                                           *)
PathUndefined ==
    /\ qpc = "rows"
    /\ data_rows # <<>>
    /\ FrameFits(header_row, data_rows)
    /\ parse_exc' = "NameError"
    /\ parse_log' = Append(parse_log, <<"error", "parsing or saving failed">>)
    /\ parse_result' = "False"
    /\ qpc' = "done"
    /\ UNCHANGED <<page, report_name_info, header_row, data_rows, report_type,
                   date_published, output_files>>
    /\ ParseFrame

NextParse ==
    \/ FetchFails
    \/ FetchOk
    \/ NoTableFound
    \/ ExtractRows
    \/ NoDataRows
    \/ FrameRaises
    \/ PathUndefined

SpecParse == InitParse /\ [][NextParse]_vars

(***************************************************************************)
(* extract_audit_data (audit_report_table_extractor.py, lines 87-143).      *)
(*                                                                         *)
(* listing is what requests.get gives for the listing page: ok tells        *)
(* whether the request succeeded and hrefs are the href attributes of its   *)
(* a tags in page order.  link_pages[n] is the page served for the n-th     *)
(* audit link.                                                              *)
(***************************************************************************)
MaxLinks == 2

MAIN_AUDIT_URL == <<"h","t","t","p","s",":","/","/","w","w","w",".","h","e","a","l","t","h",".","n","y",".","g","o","v","/","s","t","a","t","i","s","t","i","c","s","/","s","p","a","r","c","s","/","r","e","p","o","r","t","s","/">>

(* str.endswith *)
EndsWith(s, suffix) ==
    Len(s) >= Len(suffix) /\ SubSeq(s, Len(s) - Len(suffix) + 1, Len(s)) = suffix

(* "/".join(segments) *)
RECURSIVE JoinSlash(_)
JoinSlash(segments) ==
    IF segments = <<>> THEN <<>>
    ELSE IF Len(segments) = 1 THEN segments[1]
    ELSE segments[1] \o <<"/">> \o JoinSlash(Tail(segments))

(* the loop of urljoin over the segments: ".." takes the last resolved      *)
(* segment away when there is one, "." is passed over                       *)
RECURSIVE ResolveSegments(_, _)
ResolveSegments(segments, resolved) ==
    IF segments = <<>> THEN resolved
    ELSE IF Head(segments) = <<".", ".">>
    THEN ResolveSegments(Tail(segments),
                         IF resolved = <<>> THEN resolved
                         ELSE SubSeq(resolved, 1, Len(resolved) - 1))
    ELSE IF Head(segments) = <<".">> THEN ResolveSegments(Tail(segments), resolved)
    ELSE ResolveSegments(Tail(segments), Append(resolved, Head(segments)))

(* urljoin: the empty segments between the first and the last are dropped   *)
InnerSegmentsKept(segments) ==
    IF Len(segments) <= 2 THEN segments
    ELSE <<segments[1]>>
         \o SelectSeq(SubSeq(segments, 2, Len(segments) - 1), LAMBDA part : part # <<>>)
         \o <<segments[Len(segments)]>>

(***************************************************************************)
(* urljoin of urllib.parse, as lines 111 and 40 (compliance_report_puller)  *)
(* call it, on texts of the characters of the model (ASCII letters, digits, *)
(* punctuation, space, tab, newline, carriage return, form feed).           *)
(***************************************************************************)

(* str.find(c, from): the first position at or after from where the text    *)
(* holds c, 0 when there is none                                            *)
Find(text, c, from) ==
    IF \E k \in from..Len(text) : text[k] = c
    THEN CHOOSE k \in from..Len(text) : text[k] = c /\ \A j \in from..(k - 1) : text[j] # c
    ELSE 0

(* str.rfind(c): the last position where the text holds c, 0 when none *)
RFind(text, c) ==
    IF \E k \in 1..Len(text) : text[k] = c
    THEN CHOOSE k \in 1..Len(text) : text[k] = c /\ \A j \in (k + 1)..Len(text) : text[j] # c
    ELSE 0

(* urlsplit: url.lstrip of the C0 control characters and the space *)
LStripControl(text) ==
    IF \A k \in 1..Len(text) : text[k] \in Whitespace THEN <<>>
    ELSE SubSeq(text,
                CHOOSE k \in 1..Len(text) :
                    text[k] \notin Whitespace /\ \A j \in 1..(k - 1) : text[j] \in Whitespace,
                Len(text))

(* urlsplit: tab, carriage return and newline are removed wherever they are *)
UnsafeUrlBytesRemoved(text) == SelectSeq(text, LAMBDA c : c \notin {"\t", "\r", "\n"})

IsAsciiLetter(c) == \E k \in 1..26 : LowerLetters[k] = c \/ UpperLetters[k] = c

(* scheme_chars *)
IsSchemeChar(c) == IsAsciiLetter(c) \/ IsDigit(c) \/ c \in {"+", "-", "."}

(* urlsplit: the length of the scheme the text starts with, 0 when the text *)
(* before its first colon is empty, starts with no letter or holds a        *)
(* character that is not of scheme_chars                                    *)
SchemeLen(text) ==
    LET colon == Find(text, ":", 1)
    IN  IF /\ colon > 1
           /\ IsAsciiLetter(text[1])
           /\ \A k \in 1..(colon - 1) : IsSchemeChar(text[k])
        THEN colon - 1 ELSE 0

(* _splitnetloc: where the host that follows // ends, at the first of / ? # *)
NetlocEnd(rest) ==
    IF \E k \in 3..Len(rest) : rest[k] \in {"/", "?", "#"}
    THEN (CHOOSE k \in 3..Len(rest) :
              rest[k] \in {"/", "?", "#"} /\ \A j \in 3..(k - 1) : rest[j] \notin {"/", "?", "#"}) - 1
    ELSE Len(rest)

(* str.split(c, 1) as urlsplit uses it: the text before the first c and the *)
(* text after it, the second one empty when there is no c                   *)
SplitOnce(text, c) ==
    IF Find(text, c, 1) = 0 THEN <<text, <<>>>>
    ELSE <<SubSeq(text, 1, Find(text, c, 1) - 1), SubSeq(text, Find(text, c, 1) + 1, Len(text))>>

(* _splitparams: the parameters start at the first ; of the last segment *)
SplitParams(path) ==
    LET semi == IF Find(path, "/", 1) > 0 THEN Find(path, ";", RFind(path, "/"))
                ELSE Find(path, ";", 1)
    IN  IF semi = 0 THEN <<path, <<>>>>
        ELSE <<SubSeq(path, 1, semi - 1), SubSeq(path, semi + 1, Len(path))>>

(* uses_params *)
UsesParams ==
    {<<>>, <<"f","t","p">>, <<"h","d","l">>, <<"p","r","o","s","p","e","r","o">>, <<"h","t","t","p">>, <<"i","m","a","p">>, <<"h","t","t","p","s">>, <<"s","h","t","t","p">>, <<"r","t","s","p">>,
     <<"r","t","s","p","s">>, <<"r","t","s","p","u">>, <<"s","i","p">>, <<"s","i","p","s">>, <<"m","m","s">>, <<"s","f","t","p">>, <<"t","e","l">>}

(***************************************************************************)
(* _check_bracketed_host: the host between [ and ] must be an IPv6 address  *)
(* as ipaddress.ip_address reads it, or an IPvFuture address.               *)
(***************************************************************************)
IsHexDigit(c) == IsDigit(c) \/ c \in {"a", "b", "c", "d", "e", "f", "A", "B", "C", "D", "E", "F"}

(* IPv4Address._parse_octet *)
IsOctet(t) ==
    /\ t # <<>>
    /\ Len(t) <= 3
    /\ \A k \in 1..Len(t) : IsDigit(t[k])
    /\ Len(t) > 1 => t[1] # "0"
    /\ DigitsVal(t) <= 255

(* IPv4Address._ip_int_from_string *)
IsIPv4Octets(octets) == Len(octets) = 4 /\ \A k \in 1..4 : IsOctet(octets[k])

IsIPv4(t) == t # <<>> /\ IsIPv4Octets(Split(t, "."))

(* IPv6Address._parse_hextet *)
IsHextet(t) == t # <<>> /\ Len(t) <= 4 /\ \A k \in 1..Len(t) : IsHexDigit(t[k])

(* the groups with :: at the group skip (counted from 1): at most seven     *)
(* groups beside it, none between the start and a leading :: or between a   *)
(* trailing :: and the end                                                  *)
IsIPv6Skipping(parts, skip) ==
    /\ parts[1] = <<>> => skip = 2
    /\ parts[Len(parts)] = <<>> => skip = Len(parts) - 1
    /\ (IF parts[1] = <<>> THEN 0 ELSE skip - 1)
       + (IF parts[Len(parts)] = <<>> THEN 0 ELSE Len(parts) - skip) <= 7
    /\ parts[1] # <<>> => \A k \in 1..(skip - 1) : IsHextet(parts[k])
    /\ parts[Len(parts)] # <<>> => \A k \in (skip + 1)..Len(parts) : IsHextet(parts[k])

(* IPv6Address._ip_int_from_string, on the groups between the colons *)
IsIPv6Groups(parts) ==
    /\ Len(parts) <= 9
    /\ Cardinality({k \in 2..(Len(parts) - 1) : parts[k] = <<>>}) <= 1
    /\ IF \E k \in 2..(Len(parts) - 1) : parts[k] = <<>>
       THEN IsIPv6Skipping(parts, CHOOSE k \in 2..(Len(parts) - 1) : parts[k] = <<>>)
       ELSE Len(parts) = 8 /\ \A k \in 1..8 : IsHextet(parts[k])

(* a last group in dotted form is an IPv4 address and stands for two groups *)
IsIPv6Parts(parts) ==
    /\ Len(parts) >= 3
    /\ IF Find(parts[Len(parts)], ".", 1) > 0
       THEN /\ IsIPv4(parts[Len(parts)])
            /\ IsIPv6Groups(SubSeq(parts, 1, Len(parts) - 1) \o <<<<"0">>, <<"0">>>>)
       ELSE IsIPv6Groups(parts)

(* IPv6Address(text): no /, an optional %scope that is not empty and holds  *)
(* no %, and the address before it                                          *)
IsIPv6(t) ==
    /\ Find(t, "/", 1) = 0
    /\ Find(t, "%", 1) > 0 =>
          SplitOnce(t, "%")[2] # <<>> /\ Find(SplitOnce(t, "%")[2], "%", 1) = 0
    /\ SplitOnce(t, "%")[1] # <<>>
    /\ IsIPv6Parts(Split(SplitOnce(t, "%")[1], ":"))

(* the pattern \Av[a-fA-F0-9]+\..+\Z *)
IsIPvFuture(t) ==
    /\ Find(t, ".", 1) >= 3
    /\ \A k \in 2..(Find(t, ".", 1) - 1) : IsHexDigit(t[k])
    /\ Len(t) > Find(t, ".", 1)

ValidBracketedHost(host) ==
    IF host # <<>> /\ host[1] = "v" THEN IsIPvFuture(host) ELSE IsIPv6(host)

(* netloc.partition('[')[2].partition(']')[0] *)
BracketedHost(netloc) == SplitOnce(SplitOnce(netloc, "[")[2], "]")[1]

(* urlsplit after the scheme is taken off: host, fragment, query, and the   *)
(* parameters urlparse splits off the path.  invalid tells that urlsplit    *)
(* raises ValueError: the host holds one of [ and ] without the other, or   *)
(* both around a text that is not an IPv6 or IPvFuture address              *)
UrlParseRest(scheme, rest) ==
    LET hosted == Len(rest) >= 2 /\ rest[1] = "/" /\ rest[2] = "/"
        netloc == IF hosted THEN SubSeq(rest, 3, NetlocEnd(rest)) ELSE <<>>
        unfragmented == SplitOnce(IF hosted THEN SubSeq(rest, NetlocEnd(rest) + 1, Len(rest))
                                  ELSE rest, "#")
        unqueried == SplitOnce(unfragmented[1], "?")
        parted == IF scheme \in UsesParams THEN SplitParams(unqueried[1])
                  ELSE <<unqueried[1], <<>>>>
    IN  [scheme |-> scheme, netloc |-> netloc, path |-> parted[1], params |-> parted[2],
         query |-> unqueried[2], fragment |-> unfragmented[2],
         invalid |-> \/ (Find(netloc, "[", 1) > 0) # (Find(netloc, "]", 1) > 0)
                     \/ /\ Find(netloc, "[", 1) > 0
                        /\ Find(netloc, "]", 1) > 0
                        /\ ~ValidBracketedHost(BracketedHost(netloc))]

(* urlparse(url, scheme): the six parts of the URL, the scheme lower-cased, *)
(* the scheme argument taken when the URL names none                        *)
UrlParseClean(text, scheme) ==
    IF SchemeLen(text) > 0
    THEN UrlParseRest(Lower(SubSeq(text, 1, SchemeLen(text))),
                      SubSeq(text, SchemeLen(text) + 2, Len(text)))
    ELSE UrlParseRest(scheme, text)

UrlParse(url, scheme) == UrlParseClean(UnsafeUrlBytesRemoved(LStripControl(url)), scheme)

(* urlunparse for a URL with a host *)
UrlUnparse(scheme, netloc, path, params, query, fragment) ==
    LET url == IF params # <<>> THEN path \o <<";">> \o params ELSE path
    IN  scheme \o <<":", "/", "/">> \o netloc
        \o (IF url # <<>> /\ url[1] # "/" THEN <<"/">> ELSE <<>>) \o url
        \o (IF query # <<>> THEN <<"?">> \o query ELSE <<>>)
        \o (IF fragment # <<>> THEN <<"#">> \o fragment ELSE <<>>)

(* urljoin: the path of the reference resolved against the path of the base *)
JoinedPath(base_path, path) ==
    LET whole == Split(base_path, "/")
        base_parts == IF whole[Len(whole)] # <<>> THEN SubSeq(whole, 1, Len(whole) - 1)
                      ELSE whole
        segments == IF path # <<>> /\ path[1] = "/" THEN Split(path, "/")
                    ELSE InnerSegmentsKept(base_parts \o Split(path, "/"))
        joined == JoinSlash(IF segments[Len(segments)] \in {<<".">>, <<".", ".">>}
                            THEN Append(ResolveSegments(segments, <<>>), <<>>)
                            ELSE ResolveSegments(segments, <<>>))
    IN  IF joined = <<>> THEN <<"/">> ELSE joined

(* urljoin once both URLs are parsed, for a base with a scheme of           *)
(* uses_relative and uses_netloc and with a host (both bases of the program *)
(* are https URLs): a reference of another scheme is returned as it was     *)
(* written, one with a host keeps all its own parts, one with neither path  *)
(* nor parameters takes those of the base, any other has its path resolved  *)
UrlJoinParsed(b, r, url) ==
    IF r.invalid THEN ValueError
    ELSE IF r.scheme # b.scheme THEN url
    ELSE IF r.netloc # <<>>
    THEN UrlUnparse(r.scheme, r.netloc, r.path, r.params, r.query, r.fragment)
    ELSE IF r.path = <<>> /\ r.params = <<>>
    THEN UrlUnparse(r.scheme, b.netloc, b.path, b.params,
                    IF r.query = <<>> THEN b.query ELSE r.query, r.fragment)
    ELSE UrlUnparse(r.scheme, b.netloc, JoinedPath(b.path, r.path), r.params, r.query,
                    r.fragment)

(* urljoin(base, url) for a base that is not empty; ValueError when         *)
(* urlsplit raises it                                                       *)
UrlJoin(base, url) ==
    IF url = <<>> THEN base
    ELSE UrlJoinParsed(UrlParse(base, <<>>), UrlParse(url, UrlParse(base, <<>>).scheme), url)

(* line 110, left operand of the and *)
MentionsAudit(href) == Occurs(<<"a","u","d","i","t">>, href)

(* line 110, the two endswith tests *)
IsHtmlHref(href) == EndsWith(href, <<".","h","t","m">>) \/ EndsWith(href, <<".","h","t","m","l">>)

(* line 132 *)
UnknownReportName(n) == <<"u","n","k","n","o","w","n","_","a","u","d","i","t","_","r","e","p","o","r","t","_">> \o Decimal(n)

HrefPool ==
    { <<"a","u","d","i","t","/","a",".","h","t","m">>,
      <<"/","o","l","d","/","a","u","d","i","t","/","a",".","h","t","m","l">>,
      <<"o","t","h","e","r",".","h","t","m">>,
      <<"A","u","d","i","t","/","b",".","h","t","m">>,
      <<"a","u","d","i","t","/","r","e","p","o","r","t">>,
      <<".","/","a","u","d","i","t","/","x","/",".",".","/","a",".","h","t","m">>,
      <<" ","a","u","d","i","t","/",".",".",";","x",".","h","t","m">>,
      <<"/","/","[","a","u","d","i","t","]","/","a",".","h","t","m">> }

Listings ==
    {[ok |-> FALSE, hrefs |-> <<>>]}
    \cup {[ok |-> TRUE, hrefs |-> hs] : hs \in SeqsUpTo(HrefPool, MaxLinks)}

GoodPage ==
    [ok |-> TRUE, has_table |-> TRUE,
     trs |-> <<HeaderTr(<<Facility>>), DataTr(<< <<"A">> >>)>>,
     report_type_tag |-> Tag(<<" ","A","u","d","i","t"," ">>), date_published_tag |-> NoTag]

NoTablePage ==
    [ok |-> TRUE, has_table |-> FALSE, trs |-> <<>>,
     report_type_tag |-> NoTag, date_published_tag |-> NoTag]

HeaderOnlyPage ==
    [ok |-> TRUE, has_table |-> TRUE, trs |-> <<HeaderTr(<<Facility>>)>>,
     report_type_tag |-> NoTag, date_published_tag |-> NoTag]

(* its data row is wider than its header *)
RaggedPage ==
    [ok |-> TRUE, has_table |-> TRUE,
     trs |-> <<HeaderTr(<<Facility>>), DataTr(<<<<"A">>, <<"A">>>>)>>,
     report_type_tag |-> NoTag, date_published_tag |-> NoTag]

AuditPages == {FailedPage, NoTablePage, HeaderOnlyPage, RaggedPage, GoodPage}

AuditFrame == UNCHANGED <<pdfVars, aggVars, pipeVars, pullVars>>

InitAudit ==
    /\ NotCalled
    /\ pdf_filename = <<>>
    /\ pdf = [readable |-> FALSE, grids |-> <<>>]
    /\ pc = "idle"
    /\ pfi = NotSet
    /\ file_year = NotSet
    /\ tables = <<>>
    /\ i = 0
    /\ processed_tables_for_pdf = <<>>
    /\ outcomes = <<>>
    /\ result = NotSet
    /\ PipelineNotCalled
    /\ ParseNotCalled
    /\ PullNotCalled
    /\ xpc = "fetch"
    /\ listing \in Listings
    /\ link_pages \in [1..MaxLinks -> AuditPages]
    /\ tag_index = 0
    /\ audit_links = <<>>
    /\ link_index = 0
    /\ successful_extractions = 0
    /\ attempts = <<>>
    /\ audit_raised = ""

(* lines 95-102 *)
ListingFails ==
    /\ xpc = "fetch"
    /\ ~listing.ok
    /\ audit_raised' = "RuntimeError"
    /\ xpc' = "raised"
    /\ UNCHANGED <<listing, link_pages, tag_index, audit_links, link_index,
                   successful_extractions, attempts>>
    /\ UNCHANGED parseVars
    /\ AuditFrame

(* lines 95-105 *)
ListingOk ==
    /\ xpc = "fetch"
    /\ listing.ok
    /\ audit_links' = <<>>
    /\ tag_index' = 1
    /\ xpc' = "scan"
    /\ UNCHANGED <<listing, link_pages, link_index, successful_extractions,
                   attempts, audit_raised>>
    /\ UNCHANGED parseVars
    /\ AuditFrame

(* lines 106-110: "audit" does not occur in the href *)
SkipHref ==
    /\ xpc = "scan"
    /\ tag_index <= Len(listing.hrefs)
    /\ ~MentionsAudit(listing.hrefs[tag_index])
    /\ tag_index' = tag_index + 1
    /\ UNCHANGED <<xpc, listing, link_pages, audit_links, link_index,
                   successful_extractions, attempts, audit_raised>>
    /\ UNCHANGED parseVars
    /\ AuditFrame

(* lines 106-112: the href mentions audit and ends with .htm or .html, and  *)
(* urljoin gives its URL                                                    *)
KeepHref ==
    /\ xpc = "scan"
    /\ tag_index <= Len(listing.hrefs)
    /\ MentionsAudit(listing.hrefs[tag_index])
    /\ IsHtmlHref(listing.hrefs[tag_index])
    /\ UrlJoin(MAIN_AUDIT_URL, listing.hrefs[tag_index]) # ValueError
    /\ audit_links' = Append(audit_links, UrlJoin(MAIN_AUDIT_URL, listing.hrefs[tag_index]))
    /\ tag_index' = tag_index + 1
    /\ UNCHANGED <<xpc, listing, link_pages, link_index, successful_extractions,
                   attempts, audit_raised>>
    /\ UNCHANGED parseVars
    /\ AuditFrame

(* line 111: urljoin raises ValueError for a kept href whose host holds one *)
(* square bracket without the other; the loop is outside any try, so the   *)
(* exception leaves extract_audit_data                                      *)
HrefUrlInvalid ==
    /\ xpc = "scan"
    /\ tag_index <= Len(listing.hrefs)
    /\ MentionsAudit(listing.hrefs[tag_index])
    /\ IsHtmlHref(listing.hrefs[tag_index])
    /\ UrlJoin(MAIN_AUDIT_URL, listing.hrefs[tag_index]) = ValueError
    /\ audit_raised' = "ValueError"
    /\ xpc' = "raised"
    /\ UNCHANGED <<listing, link_pages, tag_index, audit_links, link_index,
                   successful_extractions, attempts>>
    /\ UNCHANGED parseVars
    /\ AuditFrame

(* line 110: the href mentions audit and has neither ending, so             *)
(* Path(link_href) is evaluated; Path is not imported (lines 1-6) and the   *)
(* NameError leaves extract_audit_data, the loop being outside any try      *)
HrefPathUndefined ==
    /\ xpc = "scan"
    /\ tag_index <= Len(listing.hrefs)
    /\ MentionsAudit(listing.hrefs[tag_index])
    /\ ~IsHtmlHref(listing.hrefs[tag_index])
    /\ audit_raised' = "NameError"
    /\ xpc' = "raised"
    /\ UNCHANGED <<listing, link_pages, tag_index, audit_links, link_index,
                   successful_extractions, attempts>>
    /\ UNCHANGED parseVars
    /\ AuditFrame

(* lines 114-117 *)
NoAuditLinks ==
    /\ xpc = "scan"
    /\ tag_index > Len(listing.hrefs)
    /\ audit_links = <<>>
    /\ audit_raised' = "RuntimeError"
    /\ xpc' = "raised"
    /\ UNCHANGED <<listing, link_pages, tag_index, audit_links, link_index,
                   successful_extractions, attempts>>
    /\ UNCHANGED parseVars
    /\ AuditFrame

(* lines 118-122 *)
StartLinks ==
    /\ xpc = "scan"
    /\ tag_index > Len(listing.hrefs)
    /\ audit_links # <<>>
    /\ successful_extractions' = 0
    /\ link_index' = 1
    /\ xpc' = "loop"
    /\ UNCHANGED <<listing, link_pages, tag_index, audit_links, attempts, audit_raised>>
    /\ UNCHANGED parseVars
    /\ AuditFrame

(* lines 122-135: Path(...) at line 126 raises NameError, caught at lines   *)
(* 130-132, so the report is named unknown_audit_report_<i+1>; then         *)
(* parse_audit_report is called with the link and that name                 *)
CallParse ==
    /\ xpc = "loop"
    /\ link_index <= Len(audit_links)
    /\ report_name_info' = UnknownReportName(link_index)
    /\ page' = link_pages[link_index]
    /\ qpc' = "fetch"
    /\ header_row' = <<>>
    /\ data_rows' = <<>>
    /\ report_type' = <<>>
    /\ date_published' = <<>>
    /\ parse_result' = "none"
    /\ parse_exc' = ""
    /\ xpc' = "call"
    /\ UNCHANGED <<parse_log, output_files>>
    /\ UNCHANGED <<listing, link_pages, tag_index, audit_links, link_index,
                   successful_extractions, attempts, audit_raised>>
    /\ AuditFrame

(* lines 135-136: parse_audit_report has returned *)
ParseReturns ==
    /\ xpc = "call"
    /\ qpc = "done"
    /\ successful_extractions' =
          IF parse_result = "True" THEN successful_extractions + 1
          ELSE successful_extractions
    /\ attempts' = Append(attempts, [url |-> audit_links[link_index],
                                     name |-> report_name_info,
                                     counted |-> parse_result = "True"])
    /\ link_index' = link_index + 1
    /\ qpc' = "idle"
    /\ xpc' = "loop"
    /\ UNCHANGED <<page, report_name_info, header_row, data_rows, report_type,
                   date_published, parse_result, parse_exc, parse_log, output_files>>
    /\ UNCHANGED <<listing, link_pages, tag_index, audit_links, audit_raised>>
    /\ AuditFrame

(* lines 138-145: after the last link *)
FinishLinks ==
    /\ xpc = "loop"
    /\ link_index > Len(audit_links)
    /\ IF successful_extractions = 0 /\ Len(audit_links) > 0
       THEN audit_raised' = "RuntimeError" /\ xpc' = "raised"
       ELSE audit_raised' = audit_raised /\ xpc' = "done"
    /\ UNCHANGED <<listing, link_pages, tag_index, audit_links, link_index,
                   successful_extractions, attempts>>
    /\ UNCHANGED parseVars
    /\ AuditFrame

NextAudit ==
    \/ ListingFails
    \/ ListingOk
    \/ SkipHref
    \/ KeepHref
    \/ HrefPathUndefined
    \/ HrefUrlInvalid
    \/ NoAuditLinks
    \/ StartLinks
    \/ CallParse
    \/ ParseReturns
    \/ FinishLinks
    \/ FetchFails
    \/ FetchOk
    \/ NoTableFound
    \/ ExtractRows
    \/ NoDataRows
    \/ FrameRaises
    \/ PathUndefined

SpecAudit == InitAudit /\ [][NextAudit]_vars

(***************************************************************************)
(* pull_compliance_pdfs and extract_pdf_urls (compliance_report_puller.py). *)
(*                                                                         *)
(* reports_page is what requests.get gives for REPORTS_URL: ok tells        *)
(* whether the request succeeded and hrefs are the href attributes of its   *)
(* a tags in page order.  mkdir_ok tells whether the directory pdfs/ can be *)
(* created, and downloads[n] what happens to the n-th URL: "ok", "request"  *)
(* (requests.get or raise_for_status raises RequestException) or "write"    *)
(* (opening or writing the file raises).                                    *)
(***************************************************************************)
MaxUrls == 2

REPORTS_URL == <<"h","t","t","p","s",":","/","/","w","w","w",".","h","e","a","l","t","h",".","n","y",".","g","o","v","/","s","t","a","t","i","s","t","i","c","s","/","s","p","a","r","c","s","/","r","e","p","o","r","t","s","/","c","o","m","p","l","i","a","n","c","e","/","p","f","i","_","f","a","c","i","l","i","t","i","e","s",".","h","t","m">>

(* the literal start of the pattern of line 35, up to the digit 2 *)
PdfHrefPrefix == <<"/","s","t","a","t","i","s","t","i","c","s","/","s","p","a","r","c","s","/","r","e","p","o","r","t","s","/","c","o","m","p","l","i","a","n","c","e","/","2">>

(* the pattern of line 35 on a text without newline: the literal start, three *)
(* digits, any characters, and .pdf at the end, without regard to case       *)
MatchesPdfLine(text) ==
    LET p == Len(PdfHrefPrefix)
    IN  /\ Len(text) >= p + 3 + 4
        /\ \A k \in 1..Len(text) : text[k] # "\n"
        /\ Lower(SubSeq(text, 1, p)) = PdfHrefPrefix
        /\ \A k \in (p + 1)..(p + 3) : IsDigit(text[k])
        /\ Lower(SubSeq(text, Len(text) - 3, Len(text))) = <<".","p","d","f">>

(* line 35: ^/statistics/sparcs/reports/compliance/2\d{3}.*\.pdf$ searched   *)
(* in the href: the dot matches no newline, and $ matches at the end of the *)
(* href and before a newline that ends it                                   *)
MatchesPdfHref(href) ==
    \/ MatchesPdfLine(href)
    \/ /\ href # <<>>
       /\ href[Len(href)] = "\n"
       /\ MatchesPdfLine(SubSeq(href, 1, Len(href) - 1))

(* line 40: urljoin(url, pdf_path) with url = REPORTS_URL.  A matching href  *)
(* starts with a slash, so it names no host and urlsplit never raises       *)
PdfUrlOf(href) == UrlJoin(REPORTS_URL, href)

(* lines 32-43 *)
RECURSIVE PdfUrlsOf(_)
PdfUrlsOf(hrefs) ==
    IF hrefs = <<>> THEN <<>>
    ELSE (IF MatchesPdfHref(Head(hrefs)) THEN <<PdfUrlOf(Head(hrefs))>> ELSE <<>>)
         \o PdfUrlsOf(Tail(hrefs))

(* lines 80 and 86: pdfs/<name of the text after the last "/" of the URL> *)
PdfFilePath(url) ==
    LET parts == Split(url, "/")
    IN  <<"p","d","f","s","/">> \o PathName(parts[Len(parts)])

(* the files under pdfs/ after open(path, "wb") and a write that ended      *)
(* (whole) or raised (not whole): the file of that path is replaced         *)
PutFile(files, path, whole) ==
    {f \in files : f.path # path} \cup {[path |-> path, whole |-> whole]}

PdfHrefPool ==
    { <<"/","s","t","a","t","i","s","t","i","c","s","/","s","p","a","r","c","s","/","r","e","p","o","r","t","s","/","c","o","m","p","l","i","a","n","c","e","/","2","0","2","3","/","a",".","p","d","f">>,
      <<"/","s","t","a","t","i","s","t","i","c","s","/","s","p","a","r","c","s","/","r","e","p","o","r","t","s","/","c","o","m","p","l","i","a","n","c","e","/","2","0","2","4","/","B",".","P","D","F">>,
      <<"/","s","t","a","t","i","s","t","i","c","s","/","s","p","a","r","c","s","/","r","e","p","o","r","t","s","/","c","o","m","p","l","i","a","n","c","e","/","1","9","9","9","/","c",".","p","d","f">>,
      <<"/","s","t","a","t","i","s","t","i","c","s","/","s","p","a","r","c","s","/","r","e","p","o","r","t","s","/","c","o","m","p","l","i","a","n","c","e","/","p","f","i",".","h","t","m">>,
      <<"/","s","t","a","t","i","s","t","i","c","s","/","s","p","a","r","c","s","/","r","e","p","o","r","t","s","/","c","o","m","p","l","i","a","n","c","e","/","2","0","2","3","/",".",".","/","a",".","p","d","f">>,
      <<"/","s","t","a","t","i","s","t","i","c","s","/","s","p","a","r","c","s","/","r","e","p","o","r","t","s","/","c","o","m","p","l","i","a","n","c","e","/","2","0","2","3","/",".",".",";","a","\t",".","p","d","f">> }

ReportsPages ==
    {[ok |-> FALSE, hrefs |-> <<>>]}
    \cup {[ok |-> TRUE, hrefs |-> hs] : hs \in SeqsUpTo(PdfHrefPool, MaxUrls)}

DownloadOutcomes == {"ok", "request", "write"}

PullFrame == UNCHANGED <<pdfVars, aggVars, pipeVars, parseVars, auditVars>>

InitPull ==
    /\ NotCalled
    /\ pdf_filename = <<>>
    /\ pdf = [readable |-> FALSE, grids |-> <<>>]
    /\ pc = "idle"
    /\ pfi = NotSet
    /\ file_year = NotSet
    /\ tables = <<>>
    /\ i = 0
    /\ processed_tables_for_pdf = <<>>
    /\ outcomes = <<>>
    /\ result = NotSet
    /\ PipelineNotCalled
    /\ ParseNotCalled
    /\ AuditNotCalled
    /\ upc = "extract"
    /\ reports_page \in ReportsPages
    /\ mkdir_ok \in BOOLEAN
    /\ downloads \in [1..MaxUrls -> DownloadOutcomes]
    /\ pdf_urls = <<>>
    /\ url_index = 0
    /\ successful_downloads = 0
    /\ failed_downloads = 0
    /\ tried = <<>>
    /\ saved = {}
    /\ pull_raised = ""

(* lines 58 and 28-30, 44-49: the request fails and extract_pdf_urls        *)
(* returns the empty list                                                   *)
ExtractPdfUrlsFails ==
    /\ upc = "extract"
    /\ ~reports_page.ok
    /\ pdf_urls' = <<>>
    /\ upc' = "urls"
    /\ UNCHANGED <<reports_page, mkdir_ok, downloads, url_index, successful_downloads,
                   failed_downloads, tried, saved, pull_raised>>
    /\ PullFrame

(* lines 58 and 28-43 *)
ExtractPdfUrls ==
    /\ upc = "extract"
    /\ reports_page.ok
    /\ pdf_urls' = PdfUrlsOf(reports_page.hrefs)
    /\ upc' = "urls"
    /\ UNCHANGED <<reports_page, mkdir_ok, downloads, url_index, successful_downloads,
                   failed_downloads, tried, saved, pull_raised>>
    /\ PullFrame

(* lines 60-63 *)
NoPdfUrls ==
    /\ upc = "urls"
    /\ pdf_urls = <<>>
    /\ pull_raised' = "RuntimeError"
    /\ upc' = "raised"
    /\ UNCHANGED <<reports_page, mkdir_ok, downloads, pdf_urls, url_index,
                   successful_downloads, failed_downloads, tried, saved>>
    /\ PullFrame

(* lines 65-72: mkdir raises OSError *)
MkdirFails ==
    /\ upc = "urls"
    /\ pdf_urls # <<>>
    /\ ~mkdir_ok
    /\ pull_raised' = "RuntimeError"
    /\ upc' = "raised"
    /\ UNCHANGED <<reports_page, mkdir_ok, downloads, pdf_urls, url_index,
                   successful_downloads, failed_downloads, tried, saved>>
    /\ PullFrame

(* lines 65-77 *)
Mkdir ==
    /\ upc = "urls"
    /\ pdf_urls # <<>>
    /\ mkdir_ok
    /\ successful_downloads' = 0
    /\ failed_downloads' = 0
    /\ url_index' = 1
    /\ upc' = "loop"
    /\ UNCHANGED <<reports_page, mkdir_ok, downloads, pdf_urls, tried, saved, pull_raised>>
    /\ PullFrame

(* lines 77-96.  The test of line 81 never holds: a URL made from a         *)
(* matching href ends with .pdf in some case, and so does its last segment. *)
DownloadPdf ==
    /\ upc = "loop"
    /\ url_index <= Len(pdf_urls)
    /\ downloads[url_index] = "ok"
    /\ saved' = PutFile(saved, PdfFilePath(pdf_urls[url_index]), TRUE)
    /\ successful_downloads' = successful_downloads + 1
    /\ tried' = Append(tried, pdf_urls[url_index])
    /\ url_index' = url_index + 1
    /\ UNCHANGED <<upc, reports_page, mkdir_ok, downloads, pdf_urls,
                   failed_downloads, pull_raised>>
    /\ PullFrame

(* the first failed download ends the loop *)
DownloadFailsStopsLoop ==
    /\ upc = "loop"
    /\ url_index <= Len(pdf_urls)
    /\ downloads[url_index] = "request"
    /\ failed_downloads' = failed_downloads + 1
    /\ tried' = Append(tried, pdf_urls[url_index])
    /\ url_index' = Len(pdf_urls) + 1
    /\ UNCHANGED <<upc, reports_page, mkdir_ok, downloads, pdf_urls,
                   successful_downloads, saved, pull_raised>>
    /\ PullFrame

(* lines 77-91, 97-99: the request raises RequestException *)
DownloadFails ==
    /\ upc = "loop"
    /\ url_index <= Len(pdf_urls)
    /\ downloads[url_index] = "request"
    /\ failed_downloads' = failed_downloads + 1
    /\ tried' = Append(tried, pdf_urls[url_index])
    /\ url_index' = url_index + 1
    /\ UNCHANGED <<upc, reports_page, mkdir_ok, downloads, pdf_urls,
                   successful_downloads, saved, pull_raised>>
    /\ PullFrame

(* lines 77-94, 100-102: open raises and the files are as before, or       *)
(* f.write raises after open and an unfinished file is left under pdfs/     *)
SavePdfFails ==
    /\ upc = "loop"
    /\ url_index <= Len(pdf_urls)
    /\ downloads[url_index] = "write"
    /\ saved' \in {saved, PutFile(saved, PdfFilePath(pdf_urls[url_index]), FALSE)}
    /\ failed_downloads' = failed_downloads + 1
    /\ tried' = Append(tried, pdf_urls[url_index])
    /\ url_index' = url_index + 1
    /\ UNCHANGED <<upc, reports_page, mkdir_ok, downloads, pdf_urls,
                   successful_downloads, pull_raised>>
    /\ PullFrame

(* lines 104-109 *)
AllDownloadsFailed ==
    /\ upc = "loop"
    /\ url_index > Len(pdf_urls)
    /\ Len(pdf_urls) > 0
    /\ successful_downloads = 0
    /\ pull_raised' = "RuntimeError"
    /\ upc' = "raised"
    /\ UNCHANGED <<reports_page, mkdir_ok, downloads, pdf_urls, url_index,
                   successful_downloads, failed_downloads, tried, saved>>
    /\ PullFrame

(* lines 104-112 *)
PullReturns ==
    /\ upc = "loop"
    /\ url_index > Len(pdf_urls)
    /\ ~(Len(pdf_urls) > 0 /\ successful_downloads = 0)
    /\ upc' = "done"
    /\ UNCHANGED <<reports_page, mkdir_ok, downloads, pdf_urls, url_index,
                   successful_downloads, failed_downloads, tried, saved, pull_raised>>
    /\ PullFrame

NextPull ==
    \/ ExtractPdfUrlsFails
    \/ ExtractPdfUrls
    \/ NoPdfUrls
    \/ MkdirFails
    \/ Mkdir
    \/ DownloadPdf
    \/ DownloadFails
    \/ SavePdfFails
    \/ AllDownloadsFailed
    \/ PullReturns

SpecPull == InitPull /\ [][NextPull]_vars

(***************************************************************************)
(* Vocabulary of the properties.                                           *)
(***************************************************************************)
(* the tables handled so far *)
Handled == 1..Len(outcomes)

(* the number of the table that the n-th returned frame was made from *)
AcceptedBefore(t) == Cardinality({u \in 1..t : outcomes[u] = "accepted"})
SourceOf(n) == CHOOSE t \in Handled : outcomes[t] = "accepted" /\ AcceptedBefore(t) = n

Returned == 1..Len(processed_tables_for_pdf)
Frame(n) == processed_tables_for_pdf[n]
GridOfFrame(n) == tables[SourceOf(n)].data
RowsOf(n) == 1..Len(Frame(n).data)

(* the column of a frame that carries a label *)
ColumnAt(df, label) == CHOOSE j \in 1..Len(df.columns) : df.columns[j] = label

(* the cell the detector gave for row k of the n-th frame, in column j *)
OriginalCell(n, k, j) == GridOfFrame(n)[Frame(n).index[k] + 1][j]
OriginalKey(n, k) == OriginalCell(n, k, ColumnAt(Frame(n), FILE_TYPE))

(* blank: empty or made of white space only *)
Blank(v) == v = <<>> \/ \A c \in {v[q] : q \in 1..Len(v)} : c \in Whitespace

(* the canonical form of a header label, character by character *)
Canonical(label) ==
    LET kept == SelectSeq(label, LAMBDA c : c # "*")
    IN  [q \in 1..Len(kept) |->
            IF kept[q] \in {" ", "\n"} THEN "_" ELSE UpperChar(kept[q])]

CanonicalHeader(grid) == [j \in 1..Len(grid[1]) |-> Canonical(grid[1][j])]

(***************************************************************************)
(* C1: in every returned table each FILE_TYPE cell is its own original      *)
(* value when that was not blank, and otherwise the original value of the   *)
(* nearest preceding surviving row whose key was not blank (missing when    *)
(* there is none); so a table whose first surviving row has a non-blank key *)
(* has no missing FILE_TYPE cell.                                           *)
(***************************************************************************)
C1_ForwardFill ==
    \A n \in Returned :
        LET kp == ColumnAt(Frame(n), FILE_TYPE)
            Filled(k) == {q \in 1..(k - 1) : ~Blank(OriginalKey(n, q))}
        IN  /\ \A k \in RowsOf(n) :
                  IF ~Blank(OriginalKey(n, k))
                  THEN Frame(n).data[k][kp] = OriginalKey(n, k)
                  ELSE IF Filled(k) = {}
                       THEN Frame(n).data[k][kp] = NaN
                       ELSE \E q \in Filled(k) :
                              /\ \A r \in Filled(k) : r <= q
                              /\ Frame(n).data[k][kp] = OriginalKey(n, q)
            /\ (RowsOf(n) # {} /\ ~Blank(OriginalKey(n, 1)))
                  => \A k \in RowsOf(n) : Frame(n).data[k][kp] # NaN

(* a returned table in which a blank key cell follows two different keys *)
C1_Witness ==
    /\ pc = "done"
    /\ \E n \in Returned : \E k \in RowsOf(n) :
          /\ k >= 3
          /\ Blank(OriginalKey(n, k))
          /\ ~Blank(OriginalKey(n, k - 1))
          /\ ~Blank(OriginalKey(n, 1))
          /\ OriginalKey(n, k - 1) # OriginalKey(n, 1)
          /\ Frame(n).data[k][ColumnAt(Frame(n), FILE_TYPE)] = OriginalKey(n, k - 1)

(***************************************************************************)
(* Vocabulary of C2: the decimal written in a cell, and how far a number    *)
(* lies from its hundredth.                                                 *)
(***************************************************************************)
(* the text without its percent sign *)
Unsigned(v) == IF v # <<>> /\ v[Len(v)] = "%" THEN SubSeq(v, 1, Len(v) - 1) ELSE v

(* digits, or digits "." digits *)
IsDecimal(b) ==
    /\ b # <<>>
    /\ \A q \in 1..Len(b) : IsDigit(b[q]) \/ b[q] = "."
    /\ Cardinality({q \in 1..Len(b) : b[q] = "."}) <= 1
    /\ IsDigit(b[1]) /\ IsDigit(b[Len(b)])

(* the digits of b read as a whole number, and how many follow the point *)
WholeNumber(b) == BigOfDigits(SelectSeq(b, IsDigit))

Decimals(b) ==
    IF \E q \in 1..Len(b) : b[q] = "."
    THEN Len(b) - (CHOOSE q \in 1..Len(b) : b[q] = ".")
    ELSE 0

(* x + y *)
RECURSIVE BigAddCarry(_, _, _)
BigAddCarry(x, y, c) ==
    IF x = <<>> /\ y = <<>> THEN CarryDigits(c)
    ELSE <<((IF x = <<>> THEN 0 ELSE x[1]) + (IF y = <<>> THEN 0 ELSE y[1]) + c) % 10000>>
         \o BigAddCarry(IF x = <<>> THEN x ELSE Tail(x), IF y = <<>> THEN y ELSE Tail(y),
                        ((IF x = <<>> THEN 0 ELSE x[1]) + (IF y = <<>> THEN 0 ELSE y[1]) + c)
                        \div 10000)

BigAdd(x, y) == BigAddCarry(x, y, 0)

(* the number x, printed as m * 10^-e, and the decimal b / 100 brought to   *)
(* the same power of ten: m * 10^(d + 2) and w * 10^e, d digits following   *)
(* the point of b and w being its digits                                    *)
ScaledNumber(x, b) == BigMulPow10(BigOfDigits(Mantissa(x)), Decimals(b) + 2)

ScaledHundredth(x, b) == BigMulPow10(WholeNumber(b), x[3])

(* the number x is the decimal b divided by 100 *)
IsHundredthOf(x, b) ==
    /\ IsFinite(x)
    /\ ~IsNegative(x)
    /\ ScaledNumber(x, b) = ScaledHundredth(x, b)

(* l and r differ by at most 4 * 10^-16 of r *)
WithinRounding(l, r) ==
    /\ ~BigLess(BigAdd(BigMulPow10(r, 16), BigMulAdd(r, 4, 0)), BigMulPow10(l, 16))
    /\ ~BigLess(BigAdd(BigMulPow10(l, 16), BigMulAdd(r, 4, 0)), BigMulPow10(r, 16))

(* the number x is the decimal b divided by 100 up to the rounding of       *)
(* binary64: the conversion of b, the division and the printing each round  *)
(* by at most 2^-53 of the value                                            *)
IsRoundedHundredthOf(x, b) ==
    /\ IsFinite(x)
    /\ ~IsNegative(x)
    /\ WithinRounding(ScaledNumber(x, b), ScaledHundredth(x, b))

(* the number x is float(b) / 100.0 *)
IsQuotientOf(x, b) == x = Div100(ParseFloat(b))

HasPctColumn(grid) ==
    \E j \in 1..Len(grid[1]) : Canonical(grid[1][j]) = PCT_OF_PREVYRAVG_SUBMTD_

(* 0.011000000000000001, which is 1.1 / 100.0 in binary64 *)
RoundedHundredthOf1_1 ==
    <<"num", <<"1","1","0","0","0","0","0","0","0","0","0","0","0","0","0","0","1">>, 18>>

(***************************************************************************)
(* C2 as stated: in every returned table made from a grid with the          *)
(* percentage column, each cell "<decimal>%" or "<decimal>" of that column  *)
(* has become the decimal divided by 100 ("75.5%" is 0.755, "20%" is 0.20,  *)
(* "50%" is 0.50), row for row, the rows keeping the order of the grid.     *)
(* Refuted by a cell "1.1%", which becomes 0.011000000000000001.            *)
(***************************************************************************)
C2_PercentToFraction ==
    \A n \in Returned :
        HasPctColumn(GridOfFrame(n)) =>
            LET pp == ColumnAt(Frame(n), PCT_OF_PREVYRAVG_SUBMTD_)
            IN  /\ \A k \in RowsOf(n) :
                      LET cell == OriginalCell(n, k, pp)
                          x == Frame(n).data[k][pp]
                      IN  /\ IsDecimal(Unsigned(cell)) => IsHundredthOf(x, Unsigned(cell))
                          /\ cell = <<"7","5",".","5","%">> => x = Num(755, 3)
                          /\ cell = <<"2","0","%">> => x = Num(2, 1)
                          /\ cell = <<"5","0","%">> => x = Num(5, 1)
                /\ \A k \in RowsOf(n) :
                      k > 1 => Frame(n).index[k - 1] < Frame(n).index[k]

(***************************************************************************)
(* C2 amended: in every returned table made from a grid with the percentage *)
(* column, each cell "<decimal>%" or "<decimal>" of that column has become  *)
(* the binary64 quotient of the decimal by 100.0, a number within           *)
(* 4 * 10^-16 (relative) of the decimal divided by 100; "75.5%" is 0.755,   *)
(* "20%" is 0.2 and "50%" is 0.5 exactly; row for row, the rows keeping the *)
(* order of the grid.                                                       *)
(***************************************************************************)
C2_PercentToFractionRounded ==
    \A n \in Returned :
        HasPctColumn(GridOfFrame(n)) =>
            LET pp == ColumnAt(Frame(n), PCT_OF_PREVYRAVG_SUBMTD_)
            IN  /\ \A k \in RowsOf(n) :
                      LET cell == OriginalCell(n, k, pp)
                          x == Frame(n).data[k][pp]
                      IN  /\ IsDecimal(Unsigned(cell)) => IsQuotientOf(x, Unsigned(cell))
                          /\ IsDecimal(Unsigned(cell))
                                => IsRoundedHundredthOf(x, Unsigned(cell))
                          /\ cell = <<"7","5",".","5","%">> => x = Num(755, 3)
                          /\ cell = <<"2","0","%">> => x = Num(2, 1)
                          /\ cell = <<"5","0","%">> => x = Num(5, 1)
                /\ \A k \in RowsOf(n) :
                      k > 1 => Frame(n).index[k - 1] < Frame(n).index[k]

(* a returned table in which the cells "1.1%", "99.9%", "0.7" and "33.3%"   *)
(* have become quotients that are not the exact hundredths, in row order    *)
C2_Witness ==
    /\ pc = "done"
    /\ \E n \in Returned :
          /\ HasPctColumn(GridOfFrame(n))
          /\ Len(Frame(n).data) = 4
          /\ [k \in 1..4 |-> OriginalCell(n, k, ColumnAt(Frame(n), PCT_OF_PREVYRAVG_SUBMTD_))]
                = <<<<"1",".","1","%">>, <<"9","9",".","9","%">>, <<"0",".","7">>,
                    <<"3","3",".","3","%">>>>
          /\ Column(Frame(n), ColumnAt(Frame(n), PCT_OF_PREVYRAVG_SUBMTD_))
                = <<RoundedHundredthOf1_1,
                    <<"num", <<"9","9","9","0","0","0","0","0","0","0","0","0","0","0","0","1">>, 16>>,
                    <<"num", <<"6","9","9","9","9","9","9","9","9","9","9","9","9","9","9","9">>, 18>>,
                    <<"num", <<"3","3","2","9","9","9","9","9","9","9","9","9","9","9","9","9","6">>, 17>>>>
          /\ ~IsHundredthOf(Frame(n).data[1][ColumnAt(Frame(n), PCT_OF_PREVYRAVG_SUBMTD_)],
                            <<"1",".","1">>)
          /\ Frame(n).index = <<1, 2, 3, 4>>

(* the returned table of the repository's test: 0.50, 0.755, 0.20 in order *)
C2_TestTable ==
    /\ pc = "done"
    /\ \E n \in Returned :
          /\ HasPctColumn(GridOfFrame(n))
          /\ Column(Frame(n), ColumnAt(Frame(n), PCT_OF_PREVYRAVG_SUBMTD_))
                = <<Num(5, 1), Num(755, 3), Num(2, 1)>>
          /\ Frame(n).index = <<1, 3, 4>>

(***************************************************************************)
(* Rows and labels as the properties speak of them.                        *)
(***************************************************************************)
(* the key text contains the summary marker, letter case aside *)
ContainsMarker(v) ==
    \E q \in 1..Len(v) :
        q + Len(TotalRecordsSubmitted) - 1 <= Len(v)
        /\ \A r \in 1..Len(TotalRecordsSubmitted) :
              UpperChar(v[q + r - 1]) = UpperChar(TotalRecordsSubmitted[r])

(* the key text is one of the header texts that the extractor removes *)
IsHeaderText(v) == v = FileNewlineType \/ Upper(v) = FILE_TYPE

(* the columns of a grid whose label has a given canonical form *)
LabelledColumns(grid, label) == {j \in 1..Len(grid[1]) : Canonical(grid[1][j]) = label}

(* a grid with one key column, one percentage column, and a key label that  *)
(* is removed with the header row *)
IsRegularPctGrid(grid) ==
    /\ grid # <<>>
    /\ Cardinality(LabelledColumns(grid, FILE_TYPE)) = 1
    /\ Cardinality(LabelledColumns(grid, PCT_OF_PREVYRAVG_SUBMTD_)) = 1
    /\ \A j \in LabelledColumns(grid, FILE_TYPE) : IsHeaderText(grid[1][j])

(* the data rows of a regular grid that outlive the row filters *)
SurvivingRows(grid) ==
    LET kp == CHOOSE j \in LabelledColumns(grid, FILE_TYPE) : TRUE
    IN  {r \in 2..Len(grid) : ~IsHeaderText(grid[r][kp]) /\ ~ContainsMarker(grid[r][kp])}

Unparsable(cell) == ~Blank(cell) /\ ParseFloat(RStrip(cell, "%")) = ValueError

(***************************************************************************)
(* C3: when a surviving data row holds a percentage cell that does not      *)
(* parse as a number, the table is still returned: that cell is missing and *)
(* every other percentage cell is converted as usual.                       *)
(***************************************************************************)
C3_UnparsableCellOnlyMissing ==
    \A t \in Handled :
        LET grid == tables[t].data
            pp == CHOOSE j \in LabelledColumns(grid, PCT_OF_PREVYRAVG_SUBMTD_) : TRUE
        IN  (/\ IsRegularPctGrid(grid)
             /\ \E r \in SurvivingRows(grid) : Unparsable(grid[r][pp]))
            => /\ outcomes[t] = "accepted"
               /\ LET df == Frame(AcceptedBefore(t))
                  IN  \A k \in 1..Len(df.data) :
                          LET cell == grid[df.index[k] + 1][pp]
                          IN  df.data[k][pp] =
                                 IF Unparsable(cell) \/ Blank(cell) THEN NaN
                                 ELSE Div100(ParseFloat(RStrip(cell, "%")))

(***************************************************************************)
(* C4: the header row of a grid never appears as a data row of the table    *)
(* returned for it.                                                         *)
(***************************************************************************)
C4_HeaderRowNotData ==
    \A n \in Returned : \A k \in RowsOf(n) : Frame(n).index[k] # 0

(***************************************************************************)
(* C5: no data row of a returned table has a key value that, trimmed and    *)
(* case-folded, equals the canonical header label FILE_TYPE.                *)
(***************************************************************************)
C5_RepeatedHeaderDropped ==
    \A n \in Returned : \A k \in RowsOf(n) :
        Frame(n).index[k] # 0
            => Lower(StripWs(OriginalKey(n, k))) # Lower(FILE_TYPE)

(***************************************************************************)
(* C6: a returned table holds no row whose key contains "Total Records      *)
(* Submitted" in any letter case, and it holds every row of its grid whose  *)
(* key neither contains that marker nor is a header text.                   *)
(***************************************************************************)
C6_SummaryRowsDropped ==
    \A n \in Returned :
        LET grid == GridOfFrame(n)
            kp == ColumnAt(Frame(n), FILE_TYPE)
            labels == {Frame(n).index[k] : k \in RowsOf(n)}
        IN  /\ \A k \in RowsOf(n) : ~ContainsMarker(OriginalKey(n, k))
            /\ \A r \in 1..Len(grid) :
                  (~ContainsMarker(grid[r][kp]) /\ ~IsHeaderText(grid[r][kp]))
                      => (r - 1) \in labels

(* a returned table that lost a summary row written in another letter case *)
(* and kept a row *)
C6_Witness ==
    /\ pc = "done"
    /\ \E n \in Returned :
          LET grid == GridOfFrame(n)
              kp == ColumnAt(Frame(n), FILE_TYPE)
          IN  /\ \E r \in 2..Len(grid) :
                    /\ ContainsMarker(grid[r][kp])
                    /\ ~Occurs(TotalRecordsSubmitted, grid[r][kp])
                    /\ \A k \in RowsOf(n) : Frame(n).index[k] # r - 1
              /\ \E k \in RowsOf(n) : Frame(n).index[k] # 0

(***************************************************************************)
(* C7: each column name that process_pdf gives a table is the raw header    *)
(* label without "*", with each line break and space turned into "_", in    *)
(* upper case: it holds no "*", space, line break or lower-case letter.     *)
(***************************************************************************)
IsCleanName(c) ==
    \A q \in 1..Len(c) : c[q] \notin {"*", " ", "\n"} /\ ~IsLower(c[q])

C7_CanonicalColumnNames ==
    /\ \A t \in Handled :
          LET grid == tables[t].data
          IN  grid # <<>> =>
                /\ tables[t].columns = CanonicalHeader(grid)
                /\ \A j \in 1..Len(grid[1]) : IsCleanName(tables[t].columns[j])
    /\ \A n \in Returned :
          /\ \A j \in 1..Len(GridOfFrame(n)[1]) :
                Frame(n).columns[j] = Canonical(GridOfFrame(n)[1][j])
          /\ \A j \in 1..Len(Frame(n).columns) : IsCleanName(Frame(n).columns[j])

(* a returned table with a raw label that has a "*", a line break and       *)
(* lower-case letters *)
C7_Witness ==
    /\ pc = "done"
    /\ \E n \in Returned : \E j \in 1..Len(GridOfFrame(n)[1]) :
          LET raw == GridOfFrame(n)[1][j]
          IN  /\ \E q \in 1..Len(raw) : raw[q] = "*"
              /\ \E q \in 1..Len(raw) : raw[q] = "\n"
              /\ \E q \in 1..Len(raw) : IsLower(raw[q])
              /\ Len(Frame(n).columns[j]) = Len(raw) - 1

(***************************************************************************)
(* C8: a grid in which two header labels have the same canonical name       *)
(* yields no table, and no returned table has two columns of one name.      *)
(***************************************************************************)
C8_NoDuplicateColumns ==
    /\ \A t \in Handled :
          LET grid == tables[t].data
          IN  (/\ grid # <<>>
               /\ \E j1, j2 \in 1..Len(grid[1]) :
                     j1 # j2 /\ Canonical(grid[1][j1]) = Canonical(grid[1][j2]))
              => outcomes[t] # "accepted"
    /\ \A n \in Returned : \A j1, j2 \in 1..Len(Frame(n).columns) :
          j1 # j2 => Frame(n).columns[j1] # Frame(n).columns[j2]

(***************************************************************************)
(* C9: no returned table has a missing FILE_TYPE cell: a table whose first  *)
(* surviving row has a blank key is rejected.                               *)
(***************************************************************************)
C9_LeadingBlankKeyRejected ==
    \A n \in Returned : \A k \in RowsOf(n) :
        Frame(n).data[k][ColumnAt(Frame(n), FILE_TYPE)] # NaN

(***************************************************************************)
(* C10: a table whose canonical column set lacks FILE_TYPE is rejected by   *)
(* the sanity check and is absent from the result; every returned table     *)
(* has a FILE_TYPE column.                                                  *)
(***************************************************************************)
C10_KeyColumnRequired ==
    /\ \A t \in Handled :
          LET grid == tables[t].data
          IN  /\ (grid # <<>> /\ LabelledColumns(grid, FILE_TYPE) = {})
                    => outcomes[t] = "skipped"
              /\ outcomes[t] = "accepted"
                    => (grid # <<>> /\ LabelledColumns(grid, FILE_TYPE) # {})
    /\ Len(processed_tables_for_pdf) = AcceptedBefore(Len(outcomes))
    /\ \A n \in Returned : \E j \in 1..Len(Frame(n).columns) : Frame(n).columns[j] = FILE_TYPE
    /\ pc = "done" /\ pdf.readable => result = processed_tables_for_pdf

(* a document with a table lacking the key column next to an accepted one *)
C10_Witness ==
    /\ pc = "done"
    /\ \E t, u \in Handled :
          /\ tables[t].data # <<>>
          /\ LabelledColumns(tables[t].data, FILE_TYPE) = {}
          /\ outcomes[u] = "accepted"
    /\ Len(result) = 1

(***************************************************************************)
(* C11: a table with no data row left after the header rows and the summary *)
(* rows are removed is rejected; every table in the result of process_pdf   *)
(* has at least one data row.                                               *)
(***************************************************************************)
C11_NoEmptyTableReturned ==
    /\ \A n \in Returned : Len(Frame(n).data) >= 1
    /\ pc = "done" => \A n \in 1..Len(result) : Len(result[n].data) >= 1

(* the base name of a modelled file name: what follows the last "/", without *)
(* the ".pdf" that every modelled name ends with                            *)
BaseNameOf(f) ==
    LET slashes == {q \in 1..Len(f) : f[q] = "/"}
        from == IF slashes = {} THEN 1
                ELSE 1 + CHOOSE q \in slashes : \A r \in slashes : r <= q
    IN  SubSeq(f, from, Len(f) - 4)

(* the underscore-delimited tokens at the two ends of a base name *)
LeadingToken(b) ==
    LET us == {q \in 1..Len(b) : b[q] = "_"}
    IN  IF us = {} THEN b
        ELSE SubSeq(b, 1, (CHOOSE q \in us : \A r \in us : q <= r) - 1)

LastToken(b) ==
    LET us == {q \in 1..Len(b) : b[q] = "_"}
    IN  IF us = {} THEN b
        ELSE SubSeq(b, (CHOOSE q \in us : \A r \in us : r <= q) + 1, Len(b))

DigitsOf(t) == SelectSeq(t, IsDigit)

(* the period values process_pdf has emitted: the parsed one and the cells *)
EmittedPeriods ==
    (IF file_year = NotSet THEN {} ELSE {file_year})
    \cup UNION {{Frame(n).data[k][ColumnAt(Frame(n), AUDIT_YEAR)] : k \in RowsOf(n)} :
                    n \in Returned}

(***************************************************************************)
(* C14: the period (AUDIT_YEAR) is the digits of the leading token of the   *)
(* base name when that token starts with "Y", and "UnknownYear" for every   *)
(* other file name; nothing but the leading token's digits or the sentinel  *)
(* is ever emitted as a period.  (A leading token "Y" has no digit: the     *)
(* sentinel is allowed for it.)                                             *)
(***************************************************************************)
C14_PeriodIsLeadingDigits ==
    LET t == LeadingToken(BaseNameOf(pdf_filename))
    IN  \A y \in EmittedPeriods :
            IF t # <<>> /\ t[1] = "Y"
            THEN /\ y \in {DigitsOf(t), UnknownYear}
                 /\ DigitsOf(t) # <<>> => y = DigitsOf(t)
            ELSE y = UnknownYear

(* what becomes of grid g when it is the only table of document f *)
Alone(g, f) ==
    ProcessTable(g, LastToken(BaseNameOf(f)), file_year_of(f))

(***************************************************************************)
(* C15: a table that is rejected or raises does not affect its siblings:    *)
(* process_pdf ends by returning a list (the empty one when detection       *)
(* raised), every detected table has been handled, and the list is exactly  *)
(* the accepted tables in detection order, each the frame the table gives   *)
(* when it is alone in the document.                                        *)
(***************************************************************************)
C15_SiblingsUnaffected ==
    pc = "done" =>
        /\ ~pdf.readable => result = <<>>
        /\ pdf.readable =>
              LET grids == pdf.grids
                  accepted == {t \in 1..Len(grids) :
                                  Alone(grids[t], pdf_filename).status = "accepted"}
                  Nth(n) == CHOOSE t \in accepted :
                                Cardinality({u \in accepted : u <= t}) = n
              IN  /\ Len(outcomes) = Len(grids)
                  /\ Len(result) = Cardinality(accepted)
                  /\ \A n \in 1..Len(result) :
                        result[n] = Alone(grids[Nth(n)], pdf_filename).df

(* a document whose first table raised and whose second table is returned *)
C15_Witness ==
    /\ pc = "done"
    /\ Len(outcomes) = 2
    /\ outcomes[1] \notin {"accepted", "skipped"}
    /\ outcomes[2] = "accepted"
    /\ Len(result) = 1
    /\ Len(result[1].data) >= 1

(***************************************************************************)
(* Vocabulary of the properties of extract_compliance_data.                *)
(***************************************************************************)
(* the file of the folder with a given name, and the grid a frame or a row  *)
(* of the final dataset was made from                                       *)
FileNamed(name) == CHOOSE f \in pdf_folder : f.name = name
OriginGrid(o) == FileNamed(o[1]).pdf.grids[o[2]]

Collected == 1..Len(all_tables_dfs)
Completed == apc = "done"
FinalRows == 1..Len(final_df.data)

(* a grid with one key column and no percentage column *)
LacksPctOnly(grid) ==
    /\ grid # <<>>
    /\ Cardinality(LabelledColumns(grid, FILE_TYPE)) = 1
    /\ LabelledColumns(grid, PCT_OF_PREVYRAVG_SUBMTD_) = {}

(* the frame has the percentage column, missing in every given row *)
PctAllMissing(df, rows) ==
    /\ Positions(df.columns, PCT_OF_PREVYRAVG_SUBMTD_) # {}
    /\ \A j \in Positions(df.columns, PCT_OF_PREVYRAVG_SUBMTD_) :
          \A k \in rows : df.data[k][j] = NaN

(***************************************************************************)
(* C12: a table with the key column and no PCT_OF_PREVYRAVG_SUBMTD_ column  *)
(* is accepted; process_pdf adds the column, missing in every row; and the  *)
(* final dataset has the column, missing in all rows of that table.         *)
(***************************************************************************)
C12_MissingPctColumnAdded ==
    /\ \A t \in Handled :
          LacksPctOnly(tables[t].data) => outcomes[t] = "accepted"
    /\ \A n \in Returned :
          LacksPctOnly(GridOfFrame(n)) => PctAllMissing(Frame(n), RowsOf(n))
    /\ \A n \in Collected :
          LacksPctOnly(OriginGrid(all_origin[n])) =>
              PctAllMissing(all_tables_dfs[n], 1..Len(all_tables_dfs[n].data))
    /\ Completed =>
          /\ Positions(csv.columns, PCT_OF_PREVYRAVG_SUBMTD_) # {}
          /\ PctAllMissing(final_df,
                {k \in FinalRows : LacksPctOnly(OriginGrid(final_origin[k]))})

(* a final dataset holding a row of a table that had no percentage column,  *)
(* next to a row of a table that had one                                    *)
C12_Witness ==
    /\ Completed
    /\ \E k \in FinalRows : LacksPctOnly(OriginGrid(final_origin[k]))
    /\ \E k \in FinalRows :
          /\ ~LacksPctOnly(OriginGrid(final_origin[k]))
          /\ \E j \in Positions(final_df.columns, PCT_OF_PREVYRAVG_SUBMTD_) :
                final_df.data[k][j] # NaN

(* the given rows of a frame carry the provenance of file f: its PFI and    *)
(* AUDIT_YEAR columns hold the last token of the base name and the period   *)
Carries(df, rows, f, period) ==
    /\ Positions(df.columns, PFI) # {}
    /\ Positions(df.columns, AUDIT_YEAR) # {}
    /\ \A k \in rows :
          /\ \A j \in Positions(df.columns, PFI) :
                df.data[k][j] = LastToken(BaseNameOf(f))
          /\ \A j \in Positions(df.columns, AUDIT_YEAR) :
                df.data[k][j] = period

(***************************************************************************)
(* C13: every row of every table returned by process_pdf(f) carries the     *)
(* provenance of f: PFI is the last underscore-delimited token of the base  *)
(* name of f and AUDIT_YEAR the period parsed from f; in the collected      *)
(* tables and in the final dataset no row carries the provenance of another *)
(* file than the one it comes from.                                         *)
(***************************************************************************)
C13_RowsCarryProvenance ==
    /\ \A n \in Returned :
          Carries(Frame(n), RowsOf(n), pdf_filename, file_year)
    /\ pc = "done" =>
          \A n \in 1..Len(result) :
              Carries(result[n], 1..Len(result[n].data), pdf_filename, file_year)
    /\ \A n \in Collected :
          Carries(all_tables_dfs[n], 1..Len(all_tables_dfs[n].data),
                  all_origin[n][1], file_year_of(all_origin[n][1]))
    /\ Completed =>
          \A k \in FinalRows :
              Carries(final_df, {k}, final_origin[k][1], file_year_of(final_origin[k][1]))

(* a final dataset with rows of two files *)
C13_Witness ==
    /\ Completed
    /\ \E k, q \in FinalRows : final_origin[k][1] # final_origin[q][1]

(* the tables of a file that process_pdf accepts *)
ValidTables(f) ==
    IF ~f.pdf.readable THEN {}
    ELSE {t \in 1..Len(f.pdf.grids) : Alone(f.pdf.grids[t], f.name).status = "accepted"}

YieldsNothing(f) == ValidTables(f) = {}

ContributesRow(f) ==
    \E t \in ValidTables(f) : Len(Alone(f.pdf.grids[t], f.name).df.data) >= 1

(* the call has ended, by returning or by raising *)
Ended == apc \in {"done", "raised"}

(* row k of the final dataset holds, under each label of its table, the     *)
(* value the table had in that row                                          *)
RowUnchanged(k) ==
    LET o == final_origin[k]
        src == Alone(OriginGrid(o), o[1]).df
        r == CHOOSE q \in 1..Len(src.index) : src.index[q] = o[3]
    IN  \A j \in 1..Len(src.columns) :
            \E q \in Positions(final_df.columns, src.columns[j]) :
                final_df.data[k][q] = src.data[r][j]

(***************************************************************************)
(* C16: a file that yields no valid table (its detection may have failed)   *)
(* contributes no row and does not abort the run: every file of the folder  *)
(* is processed, and when another file contributes a row the run completes  *)
(* (unless writing the report itself failed) with a final dataset whose     *)
(* rows are rows of the other files, unchanged.                             *)
(***************************************************************************)
WriteFailed ==
    /\ apc = "raised"
    /\ all_tables_dfs # <<>>
    /\ Concat(all_tables_dfs).exc = ""

C16_EmptyDocumentHarmless ==
    /\ \A n \in Collected : ~YieldsNothing(FileNamed(all_origin[n][1]))
    /\ (Ended /\ pdf_folder # {}) =>
          /\ Len(pdf_list) = Cardinality(pdf_folder)
          /\ pdfs_processed_count = Len(pdf_list)
    /\ (Ended /\ ~WriteFailed
             /\ \E f, g \in pdf_folder : YieldsNothing(f) /\ ContributesRow(g)) =>
          /\ Completed
          /\ \A k \in FinalRows :
                /\ ~YieldsNothing(FileNamed(final_origin[k][1]))
                /\ RowUnchanged(k)

(* the first collected table that has a column label, and the place of the *)
(* label in that table                                                      *)
FirstTableWith(label) ==
    CHOOSE n \in Collected :
        /\ Positions(all_tables_dfs[n].columns, label) # {}
        /\ \A m \in 1..(n - 1) : Positions(all_tables_dfs[m].columns, label) = {}

FirstPlaceOf(label) ==
    LET P == Positions(all_tables_dfs[FirstTableWith(label)].columns, label)
    IN  CHOOSE q \in P : \A r \in P : q <= r

SeenBefore(a, b) ==
    \/ FirstTableWith(a) < FirstTableWith(b)
    \/ FirstTableWith(a) = FirstTableWith(b) /\ FirstPlaceOf(a) < FirstPlaceOf(b)

(* the collected table that row k of the final dataset comes from, and the  *)
(* row of that table                                                        *)
SourceFrame(k) ==
    all_tables_dfs[CHOOSE n \in Collected :
                      all_origin[n] = <<final_origin[k][1], final_origin[k][2]>>]

SourceRow(k) ==
    LET src == SourceFrame(k)
    IN  src.data[CHOOSE q \in 1..Len(src.index) : src.index[q] = final_origin[k][3]]

(***************************************************************************)
(* C17: the column list of the final dataset is the set union of the        *)
(* columns of the collected tables in first-seen order (each label once),   *)
(* and every row holds under each label the value its table had under that  *)
(* label, or the missing-value marker when its table had no such column;    *)
(* no column is dropped and no value changes column.                        *)
(***************************************************************************)
C17_UnionSchema ==
    Completed =>
        LET columns == final_df.columns
        IN  /\ \A a, b \in 1..Len(columns) : a # b => columns[a] # columns[b]
            /\ \A n \in Collected : \A j \in 1..Len(all_tables_dfs[n].columns) :
                  Positions(columns, all_tables_dfs[n].columns[j]) # {}
            /\ \A a \in 1..Len(columns) : \E n \in Collected :
                  Positions(all_tables_dfs[n].columns, columns[a]) # {}
            /\ \A a, b \in 1..Len(columns) :
                  a < b => SeenBefore(columns[a], columns[b])
            /\ \A k \in FinalRows : \A a \in 1..Len(columns) :
                  LET P == Positions(SourceFrame(k).columns, columns[a])
                  IN  IF P = {} THEN final_df.data[k][a] = NaN
                      ELSE \A j \in P : final_df.data[k][a] = SourceRow(k)[j]

(* the order of file names as strings: the characters of the modelled      *)
(* names in the order of their codes                                        *)
CodeOrder ==
    <<".", "/">> \o <<"0","1","2","3","4","5","6","7","8","9">>
    \o <<"F","I","P","R","Y","_">> \o <<"d","f","p","s">>

CodeOf(c) == CHOOSE q \in 1..Len(CodeOrder) : CodeOrder[q] = c

NameBefore(a, b) ==
    \E q \in 1..(Len(a) + 1) :
        /\ \A r \in 1..(q - 1) : r <= Len(b) /\ a[r] = b[r]
        /\ \/ q = Len(a) + 1 /\ q <= Len(b)
           \/ q <= Len(a) /\ q <= Len(b) /\ CodeOf(a[q]) < CodeOf(b[q])

(* the order by (document, table index, row index) *)
OriginBefore(o, p) ==
    \/ NameBefore(o[1], p[1])
    \/ o[1] = p[1] /\ o[2] < p[2]
    \/ o[1] = p[1] /\ o[2] = p[2] /\ Len(o) = 3 /\ o[3] < p[3]

(* the first collected table, in the order of documents and table indexes,  *)
(* that has a column label                                                  *)
LeastTableWith(label) ==
    CHOOSE n \in Collected :
        /\ Positions(all_tables_dfs[n].columns, label) # {}
        /\ \A m \in Collected :
              (m # n /\ Positions(all_tables_dfs[m].columns, label) # {})
                  => OriginBefore(all_origin[n], all_origin[m])

(***************************************************************************)
(* C18: the final dataset does not depend on the order in which the files   *)
(* are enumerated: its rows are ordered by (document id, table index, row   *)
(* index), and its columns are in the order in which the tables, taken in   *)
(* that same order, first show them.                                        *)
(***************************************************************************)
C18_OrderIndependent ==
    Completed =>
        /\ \A k, q \in FinalRows :
              k < q => OriginBefore(final_origin[k], final_origin[q])
        /\ \A a, b \in 1..Len(final_df.columns) :
              a < b =>
                  LET na == LeastTableWith(final_df.columns[a])
                      nb == LeastTableWith(final_df.columns[b])
                  IN  \/ na = nb
                      \/ OriginBefore(all_origin[na], all_origin[nb])

(* the rows of the collected tables, in the order of collection *)
AllRows == RowOrigins(all_tables_dfs, all_origin, 1)

(* the row has a DISCHARGE_MONTH value in the collected table it belongs to *)
HasMonth(o) ==
    LET src == all_tables_dfs[CHOOSE n \in Collected : all_origin[n] = <<o[1], o[2]>>]
        r == CHOOSE q \in 1..Len(src.index) : src.index[q] = o[3]
        P == Positions(src.columns, DISCHARGE_MONTH)
    IN  P # {} /\ \A j \in P : src.data[r][j] # NaN

(* the written rows all have the month, and are the rows that had it *)
MonthFiltered ==
    /\ Positions(final_df.columns, DISCHARGE_MONTH) # {}
    /\ \A j \in Positions(final_df.columns, DISCHARGE_MONTH) :
          \A k \in FinalRows : final_df.data[k][j] # NaN /\ csv.data[k][j] # <<>>
    /\ Len(csv.data) = Len(final_df.data)
    /\ final_origin = SelectSeq(AllRows, HasMonth)

SomeTableHasMonth ==
    \E n \in Collected : Positions(all_tables_dfs[n].columns, DISCHARGE_MONTH) # {}

(***************************************************************************)
(* C19, as stated: every row of the final dataset written has a value in    *)
(* DISCHARGE_MONTH; the rows missing it are dropped and the rows that have  *)
(* it are all kept, in their original relative order.                       *)
(***************************************************************************)
C19_MonthAlwaysPresent ==
    Completed => MonthFiltered

(***************************************************************************)
(* C19, amended: when some collected table has a DISCHARGE_MONTH column,    *)
(* every written row has a value in it, the rows missing it are dropped and *)
(* the rows that have it are all kept in their relative order; when no      *)
(* collected table has the column the filter is skipped: every row is kept, *)
(* and the dataset has no DISCHARGE_MONTH column.                           *)
(***************************************************************************)
C19_MonthPresentWhenColumnExists ==
    Completed =>
        IF SomeTableHasMonth THEN MonthFiltered
        ELSE /\ Positions(final_df.columns, DISCHARGE_MONTH) = {}
             /\ final_origin = AllRows
             /\ Len(csv.data) = Len(AllRows)

(* a written dataset from which a row without month was dropped and in      *)
(* which a row with month was kept                                          *)
C19_Witness ==
    /\ Completed
    /\ SomeTableHasMonth
    /\ final_origin # <<>>
    /\ Len(final_origin) < Len(AllRows)

(***************************************************************************)
(* C20: when no row is left after aggregation and the DISCHARGE_MONTH       *)
(* filter, extract_compliance_data raises RuntimeError; it never completes  *)
(* having written a dataset without rows.                                   *)
(***************************************************************************)
C20_NoEmptyDataset ==
    Completed => Len(final_df.data) >= 1 /\ Len(csv.data) >= 1

(***************************************************************************)
(* C21: when every file of the folder yields no valid table (process_pdf    *)
(* returns the empty list for it), extract_compliance_data ends by raising  *)
(* RuntimeError and writes no output file.                                  *)
(***************************************************************************)
C21_NoTablesIsFatal ==
    (\A f \in pdf_folder : YieldsNothing(f)) =>
        /\ csv = NoFile
        /\ apc # "done"
        /\ LoopDone => all_tables_dfs = <<>>
        /\ Ended => raised = "RuntimeError"

(* a folder of two files, both processed, neither with a valid table *)
C21_Witness ==
    /\ apc = "raised"
    /\ raised = "RuntimeError"
    /\ pdfs_processed_count = 2
    /\ \A f \in pdf_folder : YieldsNothing(f)
    /\ csv = NoFile

(***************************************************************************)
(* C28: no partial output is persisted: the output file is written at most  *)
(* once per run, and only when every file of the folder has been processed  *)
(* and the collected tables have been aggregated; a run that is aborted, or *)
(* that fails before the aggregation completes, has written no file.        *)
(***************************************************************************)
C28_NoPartialOutput ==
    /\ [](apc \in {"aborted", "raised"} => csv = NoFile)
    /\ [][csv' # csv =>
            /\ csv = NoFile
            /\ LoopDone
            /\ pdfs_processed_count = Cardinality(pdf_folder)
            /\ apc' = "done"
            /\ csv' = ToCsv(final_df')
            /\ Len(final_origin') = Len(final_df'.data)]_vars

(***************************************************************************)
(* C29: process_pdf leaves the tables it receives as they were: the cells   *)
(* and the column labels of every detected table are those the detector    *)
(* gave, so that processing a table again gives the same outcome.           *)
(***************************************************************************)
C29_InputTablesUnchanged ==
    \A t \in 1..Len(tables) :
        /\ tables[t].data = pdf.grids[t]
        /\ tables[t].columns = RangeColumns(pdf.grids[t])
        /\ ProcessTable(tables[t].data, pfi, file_year)
              = ProcessTable(pdf.grids[t], pfi, file_year)


(***************************************************************************)
(* run_pipeline                                                             *)
(***************************************************************************)
Raising == {m \in 1..3 : behaviour[m] # "return"}

FirstRaising == CHOOSE m \in Raising : \A o \in Raising : m <= o

IsPrefix(a, b) == Len(a) <= Len(b) /\ \A m \in 1..Len(a) : a[m] = b[m]

StepErrorMsgs ==
    {StepFailedMsg[m] : m \in 1..3} \cup {StepUnexpectedMsg[m] : m \in 1..3}

StepErrors == SelectSeq(log, LAMBDA rec : rec[1] = "error" /\ rec[2] \in StepErrorMsgs)

FinalStatuses == SelectSeq(log, LAMBDA rec : rec[2] \in {SuccessMsg, WithErrorsMsg})

ErrorRecordOf(m) ==
    <<"error", IF behaviour[m] = "RuntimeError" THEN StepFailedMsg[m]
               ELSE StepUnexpectedMsg[m]>>

(* C22: the calls made so far are always a prefix of pull_compliance_pdfs,  *)
(* extract_compliance_data, extract_audit_data (so each is called at most   *)
(* once, in that order); a step is called only when every earlier step      *)
(* returned without raising; each call appends the next step of the order   *)
(* and calls are never taken back; when run_pipeline is done the calls end  *)
(* at the first step that raised, or are all three when none raised.        *)
C22_StepsInOrderUntilFirstFailure ==
    /\ [](/\ IsPrefix(calls, StepFunctions)
          /\ \A m \in 1..Len(calls) : \A o \in 1..(m - 1) : behaviour[o] = "return"
          /\ ppc = "done" =>
                Len(calls) = IF Raising = {} THEN 3 ELSE FirstRaising)
    /\ [][calls' # calls =>
             /\ Len(calls) < 3
             /\ calls' = Append(calls, StepFunctions[Len(calls) + 1])]_vars

C22_Witness ==
    /\ ppc = "done"
    /\ behaviour = <<"return", "Exception", "return">>
    /\ calls = <<"pull_compliance_pdfs", "extract_compliance_data">>

(* C23: whatever the three steps do, run_pipeline goes on until it returns  *)
(* (no exception leaves it), and when it has returned the log holds exactly *)
(* one final status, as its last record: the success message at level info  *)
(* exactly when all three steps returned normally, otherwise the            *)
(* finished-with-errors message at level error, and then the record just    *)
(* before it is the only step error of the log and names the step that      *)
(* failed and the kind of its failure.                                      *)
C23_OneFinalStatus ==
    /\ ppc # "done" => ENABLED NextPipe
    /\ ppc # "done" => Len(FinalStatuses) = 0
    /\ ppc = "done" =>
          /\ Len(FinalStatuses) = 1
          /\ log[Len(log)] = FinalStatuses[1]
          /\ (log[Len(log)] = <<"info", SuccessMsg>>) <=> (Raising = {})
          /\ Raising # {} =>
                /\ log[Len(log)] = <<"error", WithErrorsMsg>>
                /\ StepErrors = <<ErrorRecordOf(FirstRaising)>>
                /\ log[Len(log) - 1] = ErrorRecordOf(FirstRaising)
          /\ Raising = {} => StepErrors = <<>>

C23_Witness ==
    /\ ppc = "done"
    /\ behaviour = <<"return", "return", "RuntimeError">>
    /\ log[Len(log)] = <<"error", WithErrorsMsg>>
    /\ log[Len(log) - 1] = <<"error", StepFailedMsg[3]>>

(***************************************************************************)
(* parse_audit_report                                                       *)
(***************************************************************************)
(* a fetched page whose table has a header row of th cells first and then   *)
(* at least one data row, every data row as wide as the header              *)
WellFormed(p) ==
    /\ p.ok
    /\ p.has_table
    /\ Len(p.trs) >= 2
    /\ p.trs[1].ths # <<>>
    /\ \A k \in 2..Len(p.trs) :
          p.trs[k].ths = <<>> /\ Len(p.trs[k].tds) = Len(p.trs[1].ths)

ExpectedType(p) ==
    IF p.report_type_tag.present THEN StripWs(p.report_type_tag.text) ELSE UnknownReportType

ExpectedDate(p) ==
    IF p.date_published_tag.present THEN StripWs(p.date_published_tag.text) ELSE UnknownDate

ExpectedCsv(p, name) ==
    [path |-> <<"o","u","t","p","u","t","/">> \o name \o <<".","c","s","v">>,
     header |-> StripAll(p.trs[1].ths) \o <<ReportTypeColumn, DatePublishedColumn>>,
     rows |-> [k \in 1..(Len(p.trs) - 1) |->
                 StripAll(p.trs[k + 1].tds) \o <<ExpectedType(p), ExpectedDate(p)>>]]

ParseFailed ==
    /\ parse_result = "False"
    /\ output_files = {}
    /\ parse_log # <<>>

LastLevel == parse_log[Len(parse_log)][1]

(* C24: when parse_audit_report has ended on a fetched page whose table has *)
(* a header row and at least one data row, it has returned True and the     *)
(* only file written is output/<report_name_info>.csv, with the header      *)
(* followed by Report Type and Date Published and one row per data row in   *)
(* page order, each ending with the page's report type and date (or the     *)
(* Unknown defaults).                                                       *)
C24_WellFormedPageSaved ==
    (qpc = "done" /\ WellFormed(page)) =>
        /\ parse_result = "True"
        /\ output_files = {ExpectedCsv(page, report_name_info)}

(* C25: parse_audit_report always ends by returning (no exception leaves    *)
(* it); when the request failed, the page had no table of class "table",    *)
(* the table had no data rows, or the step that creates the output          *)
(* directory failed, it has returned False, written no file, and its last   *)
(* log record reports the failure (an error for the request and for the     *)
(* directory step, a warning for the missing table or rows).                *)
C25_FailureReturnsFalse ==
    /\ qpc # "done" => (parse_result = "none" /\ ENABLED NextParse)
    /\ qpc = "done" =>
          /\ parse_result \in {"True", "False"}
          /\ ~page.ok => (ParseFailed /\ LastLevel = "error")
          /\ (page.ok /\ ~page.has_table) => (ParseFailed /\ LastLevel = "warning")
          /\ (page.ok /\ page.has_table /\ Len(page.trs) <= 1) =>
                (ParseFailed /\ LastLevel = "warning")
          /\ parse_exc # "" => (ParseFailed /\ LastLevel = "error")

C25_Witness ==
    /\ qpc = "done"
    /\ page.ok
    /\ page.has_table
    /\ Len(page.trs) = 1
    /\ page.trs[1].ths # <<>>
    /\ parse_result = "False"
    /\ output_files = {}

(***************************************************************************)
(* extract_audit_data                                                       *)
(***************************************************************************)
AuditEnded == xpc \in {"done", "raised"}

AttemptedUrls == [n \in 1..Len(attempts) |-> attempts[n].url]

CountedAttempts == {n \in 1..Len(attempts) : attempts[n].counted}

(* C26: extract_audit_data ends either by returning or by raising           *)
(* RuntimeError, never another exception; it has raised exactly when the    *)
(* listing page could not be fetched, no audit link was found, or no link   *)
(* yielded data; and when it has gone through the links it has attempted    *)
(* every audit link once, in listing order, whatever earlier links did.     *)
C26_FailsOnlyByRuntimeError ==
    AuditEnded =>
        /\ audit_raised \in {"", "RuntimeError"}
        /\ (xpc = "raised") <=>
              \/ ~listing.ok
              \/ audit_links = <<>>
              \/ CountedAttempts = {}
        /\ (listing.ok /\ audit_links # <<>>) => AttemptedUrls = audit_links

(***************************************************************************)
(* pull_compliance_pdfs                                                     *)
(***************************************************************************)
PullEnded == upc \in {"done", "raised"}

EveryDownloadFails == \A n \in 1..Len(pdf_urls) : downloads[n] # "ok"

(* C27: pull_compliance_pdfs raises nothing but RuntimeError, and has       *)
(* raised it exactly when no PDF URL was extracted, the directory could not *)
(* be created, or every download failed; the URLs tried so far are always   *)
(* the first ones of the list in order, one attempt each, counted either as *)
(* successful or as failed, so a failure never ends the loop; and when the  *)
(* loop has run, every URL was tried once and successful_downloads +        *)
(* failed_downloads is the number of URLs.                                  *)
C27_RaisesExactlyOnTotalFailure ==
    /\ pull_raised \in {"", "RuntimeError"}
    /\ (pull_raised = "RuntimeError") <=> (upc = "raised")
    /\ IsPrefix(tried, pdf_urls)
    /\ successful_downloads + failed_downloads = Len(tried)
    /\ successful_downloads = Cardinality({n \in 1..Len(tried) : downloads[n] = "ok"})
    /\ PullEnded =>
          /\ (upc = "raised") <=>
                (pdf_urls = <<>> \/ ~mkdir_ok \/ EveryDownloadFails)
          /\ (pdf_urls # <<>> /\ mkdir_ok) =>
                /\ tried = pdf_urls
                /\ successful_downloads + failed_downloads = Len(pdf_urls)

C27_Witness ==
    /\ upc = "done"
    /\ Len(pdf_urls) = 2
    /\ downloads[1] = "request"
    /\ downloads[2] = "ok"
    /\ tried = pdf_urls
    /\ failed_downloads = 1
    /\ successful_downloads = 1

====
